---------------------------- MODULE Spec2Model ----------------------------
(***************************************************************************)
(* Email-Agent: the notification filter (SmartEmailFilter), the two        *)
(* pickle-backed cache mappings of TelegramEmailHandler, the callback      *)
(* handlers, and the message-poll loop of RealTimeEmailMonitor, as started *)
(* side by side by RealTimeEmailSystem.start.                              *)
(*                                                                         *)
(* Text is a sequence of atoms (short strings).  str.lower() is the table  *)
(* Lower, and Python's "kw in text" is a search for the keyword's atoms as *)
(* a contiguous run of the lowered text.  The vocabularies are chosen so   *)
(* that a keyword can only occur aligned with atoms.                       *)
(***************************************************************************)
EXTENDS Integers, Sequences, FiniteSets, TLC

(* ------------------------------ bounds -------------------------------- *)
MaxSubjectLen == 2
MaxBatch == 1
MaxSlots == 1
MaxWords == 2
MaxTime == 3
MaxUpdates == 3
MaxThreads == 2
MaxPresses == 2

(* --------------------------- program constants ------------------------ *)
\* realtime_monitor.py:100  max_errors = 5
max_errors == 5

VARIABLES
    email_cache,        \* handler -> dict: message id -> message snapshot
    pending_responses,  \* handler -> dict: message id -> response draft
    cache_file,         \* telegram_email_cache.pkl
    responses_file,     \* telegram_responses_cache.pkl
    gmail_client,       \* whether the callback handler's GmailClient could be built
    calendar_client,    \* whether the callback handler's CalendarClient could be built
    is_running,         \* RealTimeEmailMonitor.is_running
    error_count,        \* _monitoring_loop's local error_count
    mon_pc,             \* position of the monitoring thread
    batch,              \* categorized emails process_important_emails still has to visit
    iter_fetch_failed,  \* whether the fetch of the current iteration failed
    inbox,              \* the messages the mail provider holds
    now,                \* datetime.now()
    last_check_time,    \* RealTimeEmailMonitor.last_check_time
    new_emails,         \* _monitoring_loop's local new_emails
    notification_count, \* process_important_emails' local notification_count
    classify_error,     \* whether the last categorization printed "Error categorizing email"
    buttons,            \* callback data of the buttons that reached the chat
    updates,            \* the updates the chat provider has received, by update_id
    last_update_id,     \* start_polling's local last_update_id
    offset,             \* the offset of the last getUpdates request
    poll_pc,            \* position of the polling thread
    poll_batch,         \* updates of the current response not yet visited
    poll_error,         \* whether the polling thread last printed "Polling error"
    dispatched,         \* update_ids handed to _handle_callback_query or _handle_message
    sent,               \* ids whose reply the mail provider accepted in the latest handler or controller step
    events,             \* ids an event was created for in the latest handler or controller step
    labels,             \* the labels added to messages: <<message id, label>>
    polling_interval,   \* RealTimeEmailMonitor.polling_interval
    threads,            \* the monitoring-loop threads start_monitoring has started
    auto_send,          \* EmailAssistantController.auto_send
    ctl_pc,             \* position of EmailAssistantController.run
    results,            \* run's local results
    probe,              \* the message handed to the filter (filter specification)
    decision            \* what the filter answered for probe

cacheVars == <<email_cache, pending_responses, cache_file, responses_file>>
clientVars == <<gmail_client, calendar_client>>
clockVars == <<now, last_check_time>>
monitorVars == <<is_running, error_count, mon_pc, batch, iter_fetch_failed, inbox,
                 clockVars, new_emails, notification_count, classify_error>>
chatVars == <<buttons>>
filterVars == <<probe, decision>>
pollVars == <<updates, last_update_id, offset, poll_pc, poll_batch, poll_error, dispatched>>
effectVars == <<sent, events>>
threadVars == <<polling_interval, threads>>
ctlVars == <<auto_send, ctl_pc, results, labels>>
vars == <<cacheVars, clientVars, monitorVars, chatVars, filterVars, pollVars,
          effectVars, threadVars, ctlVars>>

\* an operation of the polling handler that sends no reply and creates no event
NoCalls == sent' = {} /\ events' = {}

(* ------------------------------- text --------------------------------- *)
SubjectAtoms ==
    {"URGENT", "Action ", "Required", "deadline", "Expires", " today",
     "Verify", "security", "Sale"}

ProbeSenders ==
    {<<>>, <<"bob@", "gmail.com">>, <<"mit", ".edu">>, <<"MIT", ".EDU">>,
     <<"news@", "University">>, <<"college">>, <<"School">>}

\* str.lower()
LowerAtom(a) ==
    CASE a = "URGENT" -> "urgent"
      [] a = "Action " -> "action "
      [] a = "Required" -> "required"
      [] a = "Expires" -> "expires"
      [] a = "Verify" -> "verify"
      [] a = "Sale" -> "sale"
      [] a = "Meeting" -> "meeting"
      [] a = "MIT" -> "mit"
      [] a = ".EDU" -> ".edu"
      [] a = "University" -> "university"
      [] a = "School" -> "school"
      [] a = "Test" -> "test"
      [] a = "Newsletter" -> "newsletter"
      [] a = "Important" -> "important"
      [] a = "News" -> "news"
      [] a = "Promo" -> "promo"
      [] a = "Personal" -> "personal"
      [] a = "Spam" -> "spam"
      [] a = "Can" -> "can"
      [] OTHER -> a

Lower(text) == [i \in 1..Len(text) |-> LowerAtom(text[i])]

\* kw in text
Contains(text, kw) ==
    \E i \in 1..(Len(text) - Len(kw) + 1) : SubSeq(text, i, i + Len(kw) - 1) = kw

\* any(kw in text for kw in kws)
ContainsAny(text, kws) == \E kw \in kws : Contains(text, kw)

TextsUpTo(atoms, n) == UNION {[1..m -> atoms] : m \in 0..n}

(* --------------------------- dict access ------------------------------ *)
\* dict.get(key, default)
Get(d, key, default) == IF key \in DOMAIN d THEN d[key] ELSE default

EmptyDict == <<>>

(* ----------------------- SmartEmailFilter ----------------------------- *)
Categories == {"Important", "Newsletters", "Promotions", "Meetings", "Personal"}

notification_categories == {"Important", "Meetings"}

urgent_keywords ==
    {<<"urgent">>, <<"action ", "required">>, <<"deadline">>, <<"expires">>,
     <<"verify">>, <<"security">>}

edu_domains == {<<".edu">>, <<"university">>, <<"college">>, <<"school">>}

\* a mutation of should_notify: the educational-sender rule only looks for ".edu"
should_notify_edu_only(email_data) ==
    LET category == Get(email_data, "ai_category", "")
        subject == Lower(Get(email_data, "subject", <<>>))
        sender == Lower(Get(email_data, "sender", <<>>))
        is_meeting == Get(email_data, "is_meeting_request", FALSE)
    IN  IF category = "Important" THEN TRUE
        ELSE IF is_meeting \/ category = "Meetings" THEN TRUE
        ELSE IF ContainsAny(subject, urgent_keywords) THEN TRUE
        ELSE IF Contains(sender, <<".edu">>) THEN TRUE
        ELSE FALSE

\* a mutation of should_notify: the Important rule is guarded by the meeting flag
should_notify_important_late(email_data) ==
    LET category == Get(email_data, "ai_category", "")
        subject == Lower(Get(email_data, "subject", <<>>))
        sender == Lower(Get(email_data, "sender", <<>>))
        is_meeting == Get(email_data, "is_meeting_request", FALSE)
    IN  IF is_meeting \/ category = "Meetings" THEN TRUE
        ELSE IF ContainsAny(subject, urgent_keywords) THEN TRUE
        ELSE IF ContainsAny(sender, edu_domains) THEN TRUE
        ELSE FALSE

\* a mutation of should_notify: promotions are always suppressed
should_notify_promo_muted(email_data) ==
    LET category == Get(email_data, "ai_category", "")
        subject == Lower(Get(email_data, "subject", <<>>))
        sender == Lower(Get(email_data, "sender", <<>>))
        is_meeting == Get(email_data, "is_meeting_request", FALSE)
    IN  IF category = "Important" THEN TRUE
        ELSE IF category = "Promotions" THEN FALSE
        ELSE IF is_meeting \/ category = "Meetings" THEN TRUE
        ELSE IF ContainsAny(subject, urgent_keywords) THEN TRUE
        ELSE IF ContainsAny(sender, edu_domains) THEN TRUE
        ELSE FALSE

\* a mutation of should_notify: any sender is taken for an educational one
should_notify_any_sender(email_data) ==
    LET category == Get(email_data, "ai_category", "")
        subject == Lower(Get(email_data, "subject", <<>>))
        sender == Lower(Get(email_data, "sender", <<>>))
        is_meeting == Get(email_data, "is_meeting_request", FALSE)
    IN  IF category = "Important" THEN TRUE
        ELSE IF is_meeting \/ category = "Meetings" THEN TRUE
        ELSE IF ContainsAny(subject, urgent_keywords) THEN TRUE
        ELSE IF sender # <<>> THEN TRUE
        ELSE FALSE

should_notify(email_data) ==
    LET category == Get(email_data, "ai_category", "")
        subject == Lower(Get(email_data, "subject", <<>>))
        sender == Lower(Get(email_data, "sender", <<>>))
        is_meeting == Get(email_data, "is_meeting_request", FALSE)
    IN  IF category = "Important" THEN TRUE
        ELSE IF is_meeting \/ category = "Meetings" THEN TRUE
        ELSE IF ContainsAny(subject, urgent_keywords) THEN TRUE
        ELSE IF ContainsAny(sender, edu_domains) THEN TRUE
        ELSE FALSE


\* a mutation of get_notification_priority: "expires" alone counts as strong
get_notification_priority_expires(email_data) ==
    LET subject == Lower(Get(email_data, "subject", <<>>))
        category == Get(email_data, "ai_category", "")
    IN  IF ContainsAny(subject, {<<"urgent">>, <<"deadline">>, <<"expires">>,
                                 <<"action ", "required">>})
        THEN "high"
        ELSE IF category \in {"Important", "Meetings"}
                \/ Get(email_data, "is_meeting_request", FALSE)
        THEN "medium"
        ELSE "low"

\* a mutation of get_notification_priority: personal mail counts as medium
get_notification_priority_personal(email_data) ==
    LET subject == Lower(Get(email_data, "subject", <<>>))
        category == Get(email_data, "ai_category", "")
    IN  IF ContainsAny(subject, {<<"urgent">>, <<"deadline">>, <<"expires", " today">>,
                                 <<"action ", "required">>})
        THEN "high"
        ELSE IF category \in {"Important", "Meetings", "Personal"}
                \/ Get(email_data, "is_meeting_request", FALSE)
        THEN "medium"
        ELSE "low"

\* get_notification_priority
get_notification_priority(email_data) ==
    LET subject == Lower(Get(email_data, "subject", <<>>))
        category == Get(email_data, "ai_category", "")
    IN  IF ContainsAny(subject, {<<"urgent">>, <<"deadline">>, <<"expires", " today">>,
                                 <<"action ", "required">>})
        THEN "high"
        ELSE IF category \in {"Important", "Meetings"}
                \/ Get(email_data, "is_meeting_request", FALSE)
        THEN "medium"
        ELSE "low"

(* ------------------------- message identifiers ------------------------ *)
\* A message id is the sequence of its "_"-separated segments: Gmail ids have one
\* segment, the id of the /test command two.
M1 == <<"m1">>
M2 == <<"m2">>
TestId == <<"test", "123">>
NoId == <<>>
Ids == {M1, M2, TestId}
KeyOrder == <<M1, M2, TestId>>

(* --------------------------- the two caches --------------------------- *)
Handlers == {"monitor", "system"}

Put(d, k, v) == [x \in (DOMAIN d) \cup {k} |-> IF x = k THEN v ELSE d[x]]
Del(d, k) == [x \in (DOMAIN d) \ {k} |-> d[x]]

\* pickle.dump(data, f): the items of the dict, one after the other
pickle_dump(data) ==
    LET F[i \in 0..Len(KeyOrder)] ==
            IF i = 0 THEN <<>>
            ELSE IF KeyOrder[i] \in DOMAIN data
                 THEN Append(F[i - 1], <<KeyOrder[i], data[KeyOrder[i]]>>)
                 ELSE F[i - 1]
    IN  F[Len(KeyOrder)]

\* pickle.load(f): the dict rebuilt from the items
pickle_load(items) ==
    [k \in {items[i][1] : i \in DOMAIN items} |->
        items[CHOOSE i \in DOMAIN items :
                 items[i][1] = k /\ \A j \in DOMAIN items : j > i => items[j][1] # k][2]]

NoFile == [exists |-> FALSE, items |-> <<>>]

\* a mutation of _load_cache: the last item of the file is not read
load_cache_short(file) ==
    IF file.exists /\ file.items # <<>>
    THEN pickle_load(SubSeq(file.items, 1, Len(file.items) - 1))
    ELSE EmptyDict

\* _load_cache(filename)
load_cache(file) ==
    IF file.exists THEN pickle_load(file.items) ELSE EmptyDict

\* a mutation of _save_cache: the file is left as it was
save_cache_skipped(data, file) == file

\* _save_cache(data, filename): the file as it is after the call
save_cache(data, file) == [exists |-> TRUE, items |-> pickle_dump(data)]


(* --------------------------- the chat's buttons ----------------------- *)
\* f"{verb}_{email_id}": the "_"-separated segments of the callback data
callback_data(verb, email_id) == <<verb>> \o email_id

\* _send_with_inline_keyboard: the keyboard of a notification
NotificationButtons(email_data) ==
    LET email_id == Get(email_data, "id", <<"unknown">>)
    IN  IF Get(email_data, "is_meeting_request", FALSE)
        THEN {callback_data(v, email_id) : v \in {"schedule", "reply", "view", "ignore"}}
        ELSE {callback_data(v, email_id) : v \in {"reply", "view", "done", "ignore"}}

\* send_response_preview: the keyboard of a response preview
PreviewButtons(email_data) ==
    LET email_id == Get(email_data, "id", <<"unknown">>)
    IN  {callback_data(v, email_id) : v \in {"send", "edit", "cancel"}}

SlotText(i) == CASE i = 0 -> "0" [] i = 1 -> "1" [] OTHER -> "2"

\* send_meeting_schedule_options: the keyboard of the first n suggested times
ScheduleButtons(email_data, n) ==
    LET email_id == Get(email_data, "id", <<"unknown">>)
    IN  {callback_data("time", email_id) \o <<SlotText(i)>> : i \in 0..(n - 1)}
        \cup {<<"custom">> \o callback_data("time", email_id),
              callback_data("cancel", email_id)}

\* int(parts[2])
IntOf(text) ==
    CASE text = "0" -> 0 [] text = "1" -> 1 [] text = "2" -> 2 [] text = "123" -> 123
      [] OTHER -> -1

(* --------------------- _handle_callback_query ------------------------- *)
S == "system"

\* parts = callback_data.split('_'); email_id = parts[1] if len(parts) > 1 else None
ParsedId(parts) == IF Len(parts) > 1 THEN <<parts[2]>> ELSE NoId

\* the reload of lines 142-152: the snapshot mapping the handler goes on with
CacheAfterLookup(parts) ==
    LET email_id == ParsedId(parts)
    IN  IF email_id # NoId /\ email_id \notin DOMAIN email_cache[S]
        THEN load_cache(cache_file)
        ELSE email_cache[S]

Reloaded(parts) ==
    IF ParsedId(parts) # NoId /\ ParsedId(parts) \notin DOMAIN email_cache[S]
    THEN {"email"} ELSE {}

\* the message the pressed button belongs to
ButtonId(parts) ==
    IF parts[1] = "custom" THEN SubSeq(parts, 3, Len(parts))
    ELSE IF parts[1] = "time" THEN SubSeq(parts, 2, Len(parts) - 1)
    ELSE Tail(parts)

Drafts == {"generated", "canned"}


(* ---------------------- process_important_emails ---------------------- *)
\* One pass of the loop body of process_important_emails (lines 72-84) on the
\* mapping cache and its file: filter, cache put, flush, notification send.
ProcessOne(st, email, send_ok) ==
    IF should_notify(email)
    THEN LET cache2 == Put(st.cache, email.id, email)
         IN  [cache |-> cache2,
              file |-> save_cache(cache2, st.file),
              buttons |-> IF send_ok THEN st.buttons \cup NotificationButtons(email)
                          ELSE st.buttons]
    ELSE st

\* process_important_emails(emails), send_ok[i] being the outcome of the i-th send
ProcessAll(st, emails, send_ok) ==
    LET F[i \in 0..Len(emails)] ==
            IF i = 0 THEN st ELSE ProcessOne(F[i - 1], emails[i], send_ok[i])
    IN  F[Len(emails)]

\* handler h's snapshot mapping, its file and the chat
Store(h) == [cache |-> email_cache[h], file |-> cache_file, buttons |-> buttons]

SetStore(h, st) ==
    /\ email_cache' = [email_cache EXCEPT ![h] = st.cache]
    /\ cache_file' = st.file
    /\ buttons' = st.buttons

(* ---------------------------- callbacks ------------------------------- *)
\* Every handler below starts with the lookup of _handle_callback_query (lines
\* 137-152) and is one button press handled from start to end.

\* cache.get(email_id) is empty: the handler reports "... not found" and returns
NotFound(parts) ==
    /\ email_cache' = [email_cache EXCEPT ![S] = CacheAfterLookup(parts)]
    /\ UNCHANGED <<pending_responses, cache_file, responses_file, buttons>> /\ NoCalls

\* _handle_reply_action
Reply(parts, response, preview_ok) ==
    /\ parts[1] = "reply"
    /\ LET email_id == ParsedId(parts)
           cache1 == CacheAfterLookup(parts)
       IN  IF email_id \in DOMAIN cache1
           THEN LET pending2 == Put(pending_responses[S], email_id, response)
                IN  /\ email_cache' = [email_cache EXCEPT ![S] = cache1]
                    /\ pending_responses' = [pending_responses EXCEPT ![S] = pending2]
                    /\ responses_file' = save_cache(pending2, responses_file)
                    /\ buttons' = IF preview_ok
                                  THEN buttons \cup PreviewButtons(cache1[email_id])
                                  ELSE buttons
                    /\ UNCHANGED cache_file /\ NoCalls
           ELSE NotFound(parts)

CallbackReply ==
    /\ \E parts \in buttons, response \in Drafts, preview_ok \in BOOLEAN :
          Reply(parts, response, preview_ok)
    /\ UNCHANGED <<clientVars, threadVars, ctlVars, pollVars, monitorVars, filterVars>>

\* _handle_view_action
View(parts) ==
    /\ parts[1] = "view"
    /\ NotFound(parts)

CallbackView ==
    /\ \E parts \in buttons : View(parts)
    /\ UNCHANGED <<clientVars, threadVars, ctlVars, pollVars, monitorVars, filterVars>>

\* _handle_ignore_action and _handle_done_action: the same body
RemoveSnapshot(parts) ==
    LET email_id == ParsedId(parts)
        cache1 == CacheAfterLookup(parts)
    IN  /\ IF email_id \in DOMAIN cache1
           THEN /\ email_cache' = [email_cache EXCEPT ![S] = Del(cache1, email_id)]
                /\ cache_file' = save_cache(Del(cache1, email_id), cache_file)
           ELSE /\ email_cache' = [email_cache EXCEPT ![S] = cache1]
                /\ UNCHANGED cache_file
        /\ UNCHANGED <<pending_responses, responses_file, buttons>> /\ NoCalls

Ignore(parts) == parts[1] = "ignore" /\ RemoveSnapshot(parts)

Done(parts) == parts[1] = "done" /\ RemoveSnapshot(parts)

CallbackIgnore ==
    /\ \E parts \in buttons : Ignore(parts)
    /\ UNCHANGED <<clientVars, threadVars, ctlVars, pollVars, monitorVars, filterVars>>

CallbackDone ==
    /\ \E parts \in buttons : Done(parts)
    /\ UNCHANGED <<clientVars, threadVars, ctlVars, pollVars, monitorVars, filterVars>>

\* line 340: not email_data or not response
SendMissing(parts) ==
    (IF ParsedId(parts) \in DOMAIN CacheAfterLookup(parts) THEN {} ELSE {"email"})
    \cup (IF ParsedId(parts) \in DOMAIN pending_responses[S] THEN {} ELSE {"response"})

\* a mutation of _handle_send_action: the check of line 344 is left out
Send_without_client_check(parts, success) ==
    /\ parts[1] = "send"
    /\ LET email_id == ParsedId(parts)
           cache1 == CacheAfterLookup(parts)
           pending1 == pending_responses[S]
       IN  IF SendMissing(parts) # {} \/ ~success
           THEN NotFound(parts)
           ELSE /\ email_cache' = [email_cache EXCEPT ![S] = Del(cache1, email_id)]
                /\ cache_file' = save_cache(Del(cache1, email_id), cache_file)
                /\ pending_responses' =
                       [pending_responses EXCEPT ![S] = Del(pending1, email_id)]
                /\ responses_file' = save_cache(Del(pending1, email_id), responses_file)
                /\ sent' = {email_id} /\ events' = {}
                /\ UNCHANGED buttons

\* a mutation of _handle_send_action: the draft is dropped before the provider is called
Send_clears_first(parts, success) ==
    /\ parts[1] = "send"
    /\ LET email_id == ParsedId(parts)
           cache1 == CacheAfterLookup(parts)
           pending1 == pending_responses[S]
       IN  IF SendMissing(parts) # {} \/ ~gmail_client
           THEN NotFound(parts)
           ELSE /\ pending_responses' =
                       [pending_responses EXCEPT ![S] = Del(pending1, email_id)]
                /\ responses_file' = save_cache(Del(pending1, email_id), responses_file)
                /\ IF success
                   THEN /\ email_cache' = [email_cache EXCEPT ![S] = Del(cache1, email_id)]
                        /\ cache_file' = save_cache(Del(cache1, email_id), cache_file)
                        /\ sent' = {email_id} /\ events' = {}
                   ELSE /\ email_cache' = [email_cache EXCEPT ![S] = cache1]
                        /\ UNCHANGED cache_file /\ NoCalls
                /\ UNCHANGED buttons

\* _handle_send_action; success is what gmail_client.send_email returned
Send(parts, success) ==
    /\ parts[1] = "send"
    /\ LET email_id == ParsedId(parts)
           cache1 == CacheAfterLookup(parts)
           pending1 == pending_responses[S]
       IN  IF SendMissing(parts) # {} \/ ~gmail_client \/ ~success
           THEN NotFound(parts)
           ELSE /\ email_cache' = [email_cache EXCEPT ![S] = Del(cache1, email_id)]
                /\ cache_file' = save_cache(Del(cache1, email_id), cache_file)
                /\ pending_responses' =
                       [pending_responses EXCEPT ![S] = Del(pending1, email_id)]
                /\ responses_file' = save_cache(Del(pending1, email_id), responses_file)
                /\ sent' = {email_id} /\ events' = {}
                /\ UNCHANGED buttons

CallbackSend ==
    /\ \E parts \in buttons, success \in BOOLEAN : Send(parts, success)
    /\ UNCHANGED <<clientVars, threadVars, ctlVars, pollVars, monitorVars, filterVars>>

\* a mutation of _handle_cancel_action: the draft is kept
Cancel_keeps_draft(parts) ==
    /\ parts[1] = "cancel"
    /\ email_cache' = [email_cache EXCEPT ![S] = CacheAfterLookup(parts)]
    /\ UNCHANGED <<pending_responses, responses_file, cache_file, buttons>> /\ NoCalls

\* _handle_cancel_action
Cancel(parts) ==
    /\ parts[1] = "cancel"
    /\ LET email_id == ParsedId(parts)
           pending1 == pending_responses[S]
       IN  /\ email_cache' = [email_cache EXCEPT ![S] = CacheAfterLookup(parts)]
           /\ IF email_id \in DOMAIN pending1
              THEN /\ pending_responses' =
                          [pending_responses EXCEPT ![S] = Del(pending1, email_id)]
                   /\ responses_file' = save_cache(Del(pending1, email_id), responses_file)
              ELSE UNCHANGED <<pending_responses, responses_file>>
           /\ UNCHANGED <<cache_file, buttons>> /\ NoCalls

CallbackCancel ==
    /\ \E parts \in buttons : Cancel(parts)
    /\ UNCHANGED <<clientVars, threadVars, ctlVars, pollVars, monitorVars, filterVars>>

\* _handle_schedule_action; n is the number of times suggest_meeting_times returned,
\* options_ok whether the message with the time buttons reached the chat
Schedule(parts, n, options_ok) ==
    /\ parts[1] = "schedule"
    /\ LET email_id == ParsedId(parts)
           cache1 == CacheAfterLookup(parts)
       IN  /\ email_cache' = [email_cache EXCEPT ![S] = cache1]
           /\ buttons' = IF email_id \in DOMAIN cache1 /\ calendar_client /\ n > 0
                            /\ options_ok
                         THEN buttons \cup ScheduleButtons(cache1[email_id], n)
                         ELSE buttons
           /\ UNCHANGED <<pending_responses, cache_file, responses_file>> /\ NoCalls

CallbackSchedule ==
    /\ \E parts \in buttons, n \in 0..MaxSlots, options_ok \in BOOLEAN :
          Schedule(parts, n, options_ok)
    /\ UNCHANGED <<clientVars, threadVars, ctlVars, pollVars, monitorVars, filterVars>>

\* _handle_time_selection; n as above, event_ok is whether create_event gave an event id
TimeSelection(parts, n, event_ok, response, preview_ok) ==
    /\ parts[1] = "time"
    /\ LET email_id == ParsedId(parts)
           time_index == IF Len(parts) > 2 THEN IntOf(parts[3]) ELSE 0
           cache1 == CacheAfterLookup(parts)
       IN  IF email_id \in DOMAIN cache1 /\ calendar_client /\ time_index < n /\ event_ok
           THEN LET pending2 == Put(pending_responses[S], email_id, response)
                IN  /\ email_cache' = [email_cache EXCEPT ![S] = cache1]
                    /\ pending_responses' = [pending_responses EXCEPT ![S] = pending2]
                    /\ responses_file' = save_cache(pending2, responses_file)
                    /\ buttons' = IF preview_ok
                                  THEN buttons \cup PreviewButtons(cache1[email_id])
                                  ELSE buttons
                    /\ events' = {email_id} /\ sent' = {}
                    /\ UNCHANGED cache_file
           ELSE NotFound(parts)

CallbackTime ==
    /\ \E parts \in buttons, n \in 0..MaxSlots, event_ok \in BOOLEAN,
          response \in Drafts, preview_ok \in BOOLEAN :
          TimeSelection(parts, n, event_ok, response, preview_ok)
    /\ UNCHANGED <<clientVars, threadVars, ctlVars, pollVars, monitorVars, filterVars>>

\* the else branch of the routing: "Unknown action" (the edit and custom_time buttons)
CallbackUnknown ==
    /\ \E parts \in buttons :
          /\ parts[1] \notin {"reply", "schedule", "view", "ignore", "done", "send",
                              "cancel", "time"}
          /\ NotFound(parts)
    /\ UNCHANGED <<clientVars, threadVars, ctlVars, pollVars, monitorVars, filterVars>>

\* _handle_message, text == '/test'
test_email ==
    [id |-> TestId, subject |-> <<"Test">>, sender |-> <<"test@", "example.com">>,
     snippet |-> <<"Test">>, ai_category |-> "Important", is_meeting_request |-> FALSE]

Test(send_ok) ==
    LET cache2 == Put(email_cache[S], TestId, test_email)
    IN  /\ email_cache' = [email_cache EXCEPT ![S] = cache2]
        /\ cache_file' = save_cache(cache2, cache_file)
        /\ buttons' = IF send_ok THEN buttons \cup NotificationButtons(test_email)
                      ELSE buttons
        /\ UNCHANGED <<pending_responses, responses_file>> /\ NoCalls

TestCommand ==
    /\ \E send_ok \in BOOLEAN : Test(send_ok)
    /\ UNCHANGED <<clientVars, threadVars, ctlVars, pollVars, monitorVars, filterVars>>

(* --------------------------- classification --------------------------- *)
\* what the model may answer: a category name, something else, nothing
ModelReplies == {<<"Important">>, <<"Promo", "tion", "s">>, <<"Spam">>, <<>>}

\* f"{subject} {sender} {snippet}".lower()
AllText(email_data) ==
    Lower(Get(email_data, "subject", <<>>) \o <<" ">> \o Get(email_data, "sender", <<>>)
          \o <<" ">> \o Get(email_data, "snippet", <<>>))

\* OllamaEmailCategorizerAgent.categorize_email, response being the model's reply
categorize_email(email_data, response) ==
    LET category == Lower(response)
        all_text == AllText(email_data)
    IN  IF ContainsAny(category, {<<"news", "letter">>, <<"news">>}) THEN "Newsletters"
        ELSE IF ContainsAny(category, {<<"promo", "tion">>, <<"promo">>}) THEN "Promotions"
        ELSE IF ContainsAny(category, {<<"meeting">>, <<"schedule">>}) THEN "Meetings"
        ELSE IF ContainsAny(category, {<<"important">>, <<"urgent">>}) THEN "Important"
        ELSE IF Contains(category, <<"personal">>) THEN "Personal"
        ELSE IF ContainsAny(all_text, {<<"offer">>, <<"discount">>, <<"sale">>, <<"%">>,
                                       <<"buy">>, <<"shop">>}) THEN "Promotions"
        ELSE IF ContainsAny(all_text, {<<"newsletter">>, <<"digest">>, <<"weekly">>,
                                       <<"update">>}) THEN "Newsletters"
        ELSE IF ContainsAny(all_text, {<<"meeting">>, <<"schedule">>, <<"calendar">>,
                                       <<"availability">>}) THEN "Meetings"
        ELSE IF ContainsAny(all_text, {<<"urgent">>, <<"important">>,
                                       <<"action ", "required">>, <<"verify">>})
        THEN "Important"
        ELSE IF ContainsAny(all_text, {<<"birthday">>, <<"family">>, <<"personal">>})
        THEN "Personal"
        ELSE "Important"

meeting_keywords ==
    {<<"meeting">>, <<"call">>, <<"conference">>, <<"zoom">>, <<"teams">>, <<"webinar">>,
     <<"appointment">>, <<"schedule">>, <<"calendar">>, <<"invite">>, <<"invitation">>}

\* RealTimeEmailMonitor._is_meeting_request
is_meeting_request(email_data) ==
    LET subject == Lower(Get(email_data, "subject", <<>>))
        body == Lower(Get(email_data, "body", Get(email_data, "snippet", <<>>)))
    IN  \E keyword \in meeting_keywords : Contains(subject, keyword) \/ Contains(body, keyword)

\* dict update: email[key] = value
With(email_data, key, value) ==
    [f \in (DOMAIN email_data) \cup {key} |-> IF f = key THEN value ELSE email_data[f]]

\* _process_new_emails, lines 198-216, for one email; raised: the try body raised
\* a mutation of Categorized: an error of the categorization is not handled
Categorized_unhandled(email, response, raised) ==
    With(With(email, "ai_category", categorize_email(email, response)),
         "is_meeting_request", is_meeting_request(email))

Categorized(email, response, raised) ==
    IF raised
    THEN With(With(email, "ai_category", "Important"), "is_meeting_request", FALSE)
    ELSE With(With(email, "ai_category", categorize_email(email, response)),
              "is_meeting_request", is_meeting_request(email))

(* ------------------------------ the inbox ----------------------------- *)
\* messages the mail provider may hold
SaleMail ==
    [id |-> M1, subject |-> <<"Sale">>, sender |-> <<"bob@", "gmail.com">>,
     snippet |-> <<"Sale">>, body |-> <<"Sale">>]

MeetingMail ==
    [id |-> M2, subject |-> <<"Meeting">>, sender |-> <<"bob@", "gmail.com">>,
     snippet |-> <<"Meeting">>, body |-> <<"Meeting">>]

UrgentMail ==
    [id |-> M2, subject |-> <<"URGENT">>, sender |-> <<"bob@", "gmail.com">>,
     snippet |-> <<"URGENT">>, body |-> <<"URGENT">>]

\* what _process_new_emails can make of one email
CategorizedOf(email) ==
    {Categorized(email, response, raised) : response \in ModelReplies, raised \in BOOLEAN}

\* a fetch returns up to MaxBatch messages of the inbox; _process_new_emails
\* categorizes each of them
CategorizedBatches ==
    LET categorized == UNION {CategorizedOf(email) : email \in inbox}
    IN  UNION {[1..n -> categorized] : n \in 1..MaxBatch}

(* ------------------------- _monitoring_loop --------------------------- *)
\* lines 105-109: the fetch gave messages; _process_new_emails categorizes them
MonitorFetchFound ==
    /\ mon_pc = "check" /\ is_running
    /\ batch' \in CategorizedBatches
    /\ new_emails' = [i \in DOMAIN batch' |-> CHOOSE email \in inbox : email.id = batch'[i].id]
    /\ notification_count' = 0
    /\ mon_pc' = "notify"
    /\ iter_fetch_failed' = FALSE
    /\ UNCHANGED <<is_running, error_count, inbox, clockVars, classify_error,
                   cacheVars, clientVars, effectVars, threadVars, ctlVars, pollVars, chatVars, filterVars>>

\* lines 105-111: nothing new
MonitorFetchNone ==
    /\ mon_pc = "check" /\ is_running
    /\ mon_pc' = "finish"
    /\ iter_fetch_failed' = FALSE
    /\ UNCHANGED <<is_running, error_count, batch, inbox, clockVars, new_emails,
                   notification_count, classify_error,
                   cacheVars, clientVars, effectVars, threadVars, ctlVars, pollVars, chatVars, filterVars>>

\* the fetch failed: get_messages (gmail_client.py lines 82-84) or
\* _check_for_new_emails (lines 160-162) caught the error and returned []
MonitorFetchFails ==
    /\ mon_pc = "check" /\ is_running
    /\ mon_pc' = "finish"
    /\ iter_fetch_failed' = TRUE
    /\ UNCHANGED <<is_running, error_count, batch, inbox, clockVars, new_emails,
                   notification_count, classify_error,
                   cacheVars, clientVars, effectVars, threadVars, ctlVars, pollVars, chatVars, filterVars>>

\* process_important_emails of the monitor's handler: the next email of the batch
MonitorNotify ==
    /\ mon_pc = "notify" /\ batch # <<>>
    /\ \E send_ok \in BOOLEAN :
          /\ SetStore("monitor", ProcessOne(Store("monitor"), Head(batch), send_ok))
          /\ notification_count' = IF should_notify(Head(batch)) /\ send_ok
                                   THEN notification_count + 1
                                   ELSE notification_count
    /\ batch' = Tail(batch)
    /\ mon_pc' = IF Tail(batch) = <<>> THEN "finish" ELSE "notify"
    /\ UNCHANGED <<is_running, error_count, iter_fetch_failed, inbox, clockVars,
                   new_emails, classify_error,
                   pending_responses, responses_file, clientVars, effectVars, threadVars, ctlVars, pollVars, filterVars>>

\* lines 113-120: the iteration ends normally
MonitorFinish ==
    /\ mon_pc = "finish"
    /\ error_count' = 0
    /\ iter_fetch_failed' = FALSE
    /\ last_check_time' = now
    /\ new_emails' = <<>>
    /\ notification_count' = 0
    /\ classify_error' = FALSE
    /\ mon_pc' = "check"
    /\ UNCHANGED <<is_running, batch, inbox, now, cacheVars, clientVars, effectVars, threadVars, ctlVars, pollVars, chatVars, filterVars>>

\* lines 124-135: an exception escaped the try body
MonitorRaises ==
    /\ mon_pc = "check" /\ is_running
    /\ error_count' = error_count + 1
    /\ IF error_count + 1 >= max_errors
       THEN mon_pc' = "stopped" /\ is_running' = FALSE
       ELSE mon_pc' = "check" /\ UNCHANGED is_running
    /\ UNCHANGED <<batch, iter_fetch_failed, inbox, clockVars, new_emails,
                   notification_count, classify_error,
                   cacheVars, clientVars, effectVars, threadVars, ctlVars, pollVars, chatVars, filterVars>>

\* process_important_emails([email]) called on the polling handler itself; a longer
\* list is the same as one call per email, the loop keeps nothing between emails
ProcessImportantEmails ==
    /\ \E new_email \in inbox :
          \E email \in CategorizedOf(new_email), send_ok \in BOOLEAN :
             SetStore(S, ProcessAll(Store(S), <<email>>, <<send_ok>>))
    /\ NoCalls
    /\ UNCHANGED <<pending_responses, responses_file, clientVars, threadVars, ctlVars, pollVars, monitorVars, filterVars>>

(* --------------------------- specifications --------------------------- *)
NoProbe == [id |-> NoId]

\* the state after construction: both handlers loaded the (absent) files
InitHandlers ==
    /\ email_cache = [h \in Handlers |-> load_cache(NoFile)]
    /\ pending_responses = [h \in Handlers |-> load_cache(NoFile)]
    /\ cache_file = NoFile
    /\ responses_file = NoFile
    /\ is_running = TRUE
    /\ error_count = 0
    /\ mon_pc = "check"
    /\ batch = <<>>
    /\ iter_fetch_failed = FALSE
    /\ now = 1
    /\ last_check_time = 0
    /\ new_emails = <<>>
    /\ notification_count = 0
    /\ classify_error = FALSE
    /\ buttons = {}
    /\ updates = <<>>
    /\ last_update_id = 0
    /\ offset = 0
    /\ poll_pc = "get"
    /\ poll_batch = <<>>
    /\ poll_error = FALSE
    /\ dispatched = <<>>
    /\ sent = {}
    /\ events = {}
    /\ labels = {}
    /\ ctl_pc = "idle"
    /\ results = <<>>

\* RealTimeEmailSystem.start: RealTimeEmailMonitor(polling_interval=30); the monitoring
\* thread is the one mon_pc follows; no controller runs
InitDefaults ==
    /\ polling_interval = 30
    /\ threads = <<>>
    /\ auto_send = FALSE

Callbacks ==
    \/ CallbackReply
    \/ CallbackView
    \/ CallbackIgnore
    \/ CallbackDone
    \/ CallbackSend
    \/ CallbackCancel
    \/ CallbackUnknown

\* RealTimeEmailSystem.start: the monitor's own handler notifies, the system's polls
Init ==
    /\ InitHandlers
    /\ InitDefaults
    /\ decision = "none"
    /\ probe = NoProbe
    /\ inbox = {SaleMail, UrgentMail}
    /\ gmail_client = TRUE
    /\ calendar_client = TRUE

Next ==
    \/ MonitorFetchFound
    \/ MonitorFetchNone
    \/ MonitorFetchFails
    \/ MonitorNotify
    \/ MonitorFinish
    \/ Callbacks
    \/ TestCommand

Spec == Init /\ [][Next]_vars

\* One TelegramEmailHandler that notifies and polls
InitSingle ==
    /\ InitHandlers
    /\ InitDefaults
    /\ decision = "none"
    /\ probe = NoProbe
    /\ inbox = {SaleMail, MeetingMail}
    /\ gmail_client \in BOOLEAN
    /\ calendar_client \in BOOLEAN

NextSingle ==
    \/ ProcessImportantEmails
    \/ Callbacks
    \/ CallbackSchedule
    \/ CallbackTime
    \/ TestCommand

SpecSingle == InitSingle /\ [][NextSingle]_vars

\* The message-poll loop alone
NextMonitor ==
    \/ MonitorFetchFound
    \/ MonitorFetchNone
    \/ MonitorFetchFails
    \/ MonitorNotify
    \/ MonitorFinish
    \/ MonitorRaises

SpecMonitor == Init /\ [][NextMonitor]_vars

(* ------------------ the message-poll loop with its clock -------------- *)
\* MonitorFetchFound, MonitorFetchNone and MonitorFetchFails above leave open which
\* messages a fetch returns.  Below the fetch is _check_for_new_emails itself: the
\* messages carry their date and are compared with last_check_time.

\* 'date' of GmailClient._parse_message: fromtimestamp(internalDate / 1000).isoformat().
\* isoformat() of a time with whole seconds is '%Y-%m-%dT%H:%M:%S'; otherwise it ends
\* in a fraction of a second
Dated(email, time, whole) == With(email, "date", [time |-> time, whole |-> whole])

NoDate == [time |-> -1, whole |-> FALSE]

\* _parse_email_date at the time current: no format accepts a fraction of a second,
\* and a date no format accepts becomes datetime.now()
parse_email_date(date_str, current) ==
    IF date_str = NoDate THEN NoDate.time
    ELSE IF date_str.whole THEN date_str.time
    ELSE current

\* _check_for_new_emails, lines 151-156; the query of lines 144-148 returns the inbox
\* (fewer than max_results messages, all of today)
check_for_new_emails(messages, since, current) ==
    {message \in messages :
        LET email_date == parse_email_date(Get(message, "date", NoDate), current)
        IN  email_date # NoDate.time /\ email_date > since}

\* the lists of the messages of a set, in any order
ListsOf(messages) ==
    {list \in [1..Cardinality(messages) -> messages] :
        \A i, j \in DOMAIN list : list[i] = list[j] => i = j}

\* time passes
Tick ==
    /\ now < MaxTime
    /\ now' = now + 1
    /\ UNCHANGED <<last_check_time, is_running, error_count, mon_pc, batch,
                   iter_fetch_failed, inbox, new_emails, notification_count,
                   classify_error, cacheVars, clientVars, effectVars, threadVars, ctlVars, pollVars, chatVars, filterVars>>

\* a message reaches the inbox
Arrive ==
    /\ \E email \in {SaleMail, UrgentMail}, whole \in BOOLEAN :
          /\ \A message \in inbox : message.id # email.id
          /\ inbox' = inbox \cup {Dated(email, now, whole)}
    /\ UNCHANGED <<clockVars, is_running, error_count, mon_pc, batch,
                   iter_fetch_failed, new_emails, notification_count,
                   classify_error, cacheVars, clientVars, effectVars, threadVars, ctlVars, pollVars, chatVars, filterVars>>

\* lines 103-111: new_emails = self._check_for_new_emails(); when the fetch failed
\* the error was caught (lines 160-162, gmail_client.py lines 82-84) and the list is []
CheckForNewEmails ==
    /\ mon_pc = "check" /\ is_running
    /\ \E failed \in BOOLEAN :
          LET found == IF failed THEN {}
                       ELSE check_for_new_emails(inbox, last_check_time, now)
          IN  /\ new_emails' \in ListsOf(found)
              /\ mon_pc' = IF found = {} THEN "finish" ELSE "classify"
              /\ iter_fetch_failed' = failed
    /\ UNCHANGED <<clockVars, is_running, error_count, batch, inbox,
                   notification_count, classify_error,
                   cacheVars, clientVars, effectVars, threadVars, ctlVars, pollVars, chatVars, filterVars>>

\* _process_new_emails, lines 198-216: the next email is categorized
Classify ==
    /\ mon_pc = "classify"
    /\ \E response \in ModelReplies, raised \in BOOLEAN :
          /\ batch' = Append(batch, Categorized(new_emails[Len(batch) + 1], response, raised))
          /\ classify_error' = raised
    /\ mon_pc' = IF Len(batch) + 1 = Len(new_emails) THEN "notify" ELSE "classify"
    /\ notification_count' = 0
    /\ UNCHANGED <<clockVars, is_running, error_count, iter_fetch_failed, inbox,
                   new_emails, cacheVars, clientVars, effectVars, threadVars, ctlVars, pollVars, chatVars, filterVars>>

InitLoop ==
    /\ InitHandlers
    /\ InitDefaults
    /\ decision = "none"
    /\ probe = NoProbe
    /\ inbox = {}
    /\ gmail_client = TRUE
    /\ calendar_client = TRUE

NextLoop ==
    \/ Tick
    \/ Arrive
    \/ CheckForNewEmails
    \/ Classify
    \/ MonitorNotify
    \/ MonitorFinish

SpecLoop == InitLoop /\ [][NextLoop]_vars

(* --------------------------- start_polling ---------------------------- *)
\* _handle_callback_query: the routing of lines 158-176
HandleCallbackQuery(parts) ==
    \/ \E response \in Drafts, preview_ok \in BOOLEAN : Reply(parts, response, preview_ok)
    \/ \E n \in 0..MaxSlots, options_ok \in BOOLEAN : Schedule(parts, n, options_ok)
    \/ View(parts)
    \/ Ignore(parts)
    \/ Done(parts)
    \/ \E success \in BOOLEAN : Send(parts, success)
    \/ Cancel(parts)
    \/ \E n \in 0..MaxSlots, event_ok \in BOOLEAN, response \in Drafts, preview_ok \in BOOLEAN :
          TimeSelection(parts, n, event_ok, response, preview_ok)
    \/ /\ parts[1] \notin {"reply", "schedule", "view", "ignore", "done", "send",
                           "cancel", "time"}
       /\ NotFound(parts)

\* _handle_message: /test sends the test notification, /start and /status only answer
HandleMessage(text) ==
    IF text = "/test" THEN \E send_ok \in BOOLEAN : Test(send_ok)
    ELSE UNCHANGED <<cacheVars, chatVars>> /\ NoCalls

\* an update as getUpdates returns it
CallbackUpdate(update_id, parts) == [update_id |-> update_id, callback_query |-> parts]

MessageUpdate(update_id, text) == [update_id |-> update_id, message |-> text]

\* the user presses a button of the chat
UserPress ==
    /\ Len(updates) < MaxUpdates
    /\ \E parts \in buttons :
          updates' = Append(updates, CallbackUpdate(Len(updates) + 1, parts))
    /\ UNCHANGED <<last_update_id, offset, poll_pc, poll_batch, poll_error, dispatched,
                   cacheVars, clientVars, effectVars, threadVars, ctlVars, monitorVars, chatVars, filterVars>>

\* the user writes to the bot
UserWrites ==
    /\ Len(updates) < MaxUpdates
    /\ \E text \in {"/test", "/start"} :
          updates' = Append(updates, MessageUpdate(Len(updates) + 1, text))
    /\ UNCHANGED <<last_update_id, offset, poll_pc, poll_batch, poll_error, dispatched,
                   cacheVars, clientVars, effectVars, threadVars, ctlVars, monitorVars, chatVars, filterVars>>

\* getUpdates: the updates with update_id >= offset, oldest first
getUpdates(requested) == SubSeq(updates, requested, Len(updates))

\* a mutation of on_polling_error: the loop is left
on_polling_error_break == "stopped"

\* lines 124-126: except Exception: print, sleep, and the while loop goes on
on_polling_error == "get"

\* lines 97-104 and 119: the request; status is whether status_code was 200, raised
\* whether requests.get or response.json() raised
PollGet ==
    /\ poll_pc = "get"
    /\ offset' = last_update_id + 1
    /\ \E status \in BOOLEAN, raised \in BOOLEAN :
          IF raised
          THEN /\ poll_pc' = on_polling_error
               /\ poll_error' = TRUE
               /\ poll_batch' = <<>>
          ELSE /\ poll_batch' = IF status THEN getUpdates(last_update_id + 1) ELSE <<>>
               /\ poll_pc' = IF poll_batch' = <<>> THEN "get" ELSE "dispatch"
               /\ poll_error' = FALSE
    /\ UNCHANGED <<updates, last_update_id, dispatched,
                   cacheVars, clientVars, effectVars, threadVars, ctlVars, monitorVars, chatVars, filterVars>>

\* a mutation of cursor_after: the cursor moves only when the handler returned
cursor_after_handled(current, update, raised) ==
    IF raised THEN current ELSE update.update_id

\* line 108: last_update_id = update['update_id'], before the update is handled
cursor_after(current, update, raised) == update.update_id

\* lines 107-116: one pass of the for loop; raised is whether the handler raised
PollDispatch ==
    /\ poll_pc = "dispatch"
    /\ LET update == Head(poll_batch)
       IN  \E raised \in BOOLEAN :
              /\ last_update_id' = cursor_after(last_update_id, update, raised)
              /\ dispatched' = Append(dispatched, update.update_id)
              /\ IF raised
                 THEN /\ poll_pc' = on_polling_error
                      /\ poll_error' = TRUE
                      /\ poll_batch' = <<>>
                      /\ UNCHANGED <<cacheVars, chatVars>> /\ NoCalls
                 ELSE /\ IF "callback_query" \in DOMAIN update
                         THEN HandleCallbackQuery(update.callback_query)
                         ELSE HandleMessage(update.message)
                      /\ poll_batch' = Tail(poll_batch)
                      /\ poll_pc' = IF Tail(poll_batch) = <<>> THEN "get" ELSE "dispatch"
                      /\ UNCHANGED poll_error
    /\ UNCHANGED <<updates, offset, clientVars, threadVars, ctlVars, monitorVars, filterVars>>

\* RealTimeEmailSystem.start with an empty inbox: both loops run
NextPolling ==
    \/ UserPress
    \/ UserWrites
    \/ PollGet
    \/ PollDispatch
    \/ MonitorFetchNone
    \/ MonitorFetchFails
    \/ MonitorFinish
    \/ MonitorRaises

SpecPolling == InitLoop /\ [][NextPolling]_vars

(* ------------------------ words in a text ----------------------------- *)
\* The classifiers below search words.  Their texts are words separated by single
\* spaces: " ".join(words).
Spaced(ws) ==
    [i \in 1..(IF ws = <<>> THEN 0 ELSE 2 * Len(ws) - 1) |->
        IF i % 2 = 1 THEN ws[(i + 1) \div 2] ELSE " "]

\* re.findall(r'\w+', a): the words a regex \b(...)\b can match in the atom
Tokens(a) ==
    CASE a = "coming?" -> {"coming"}
      [] a = "bob@gmail.com" -> {"bob", "gmail", "com"}
      [] a = "you@x.com" -> {"you", "x", "com"}
      [] a = "noreply@x.com" -> {"noreply", "x", "com"}
      [] a = "x@news.site.com" -> {"x", "news", "site", "com"}
      [] a = " " -> {}
      [] OTHER -> {a}

\* the searched keywords k with "k in a"
Within(a) ==
    CASE a = "robot" -> {"robot", "bot"}
      [] a = "coming?" -> {"?"}
      [] a = "office" -> {"office", "off"}
      [] a = "noreply@x.com" -> {"noreply"}
      [] a = " " -> {}
      [] OTHER -> {a}

\* the word the atom starts with, and the word it ends with
Begins(a) ==
    CASE a = "bob@gmail.com" -> {"bob"}
      [] a = "you@x.com" -> {"you"}
      [] a = "noreply@x.com" -> {"noreply"}
      [] a = "x@news.site.com" -> {"x"}
      [] a = " " -> {}
      [] OTHER -> Tokens(a)

Ends(a) ==
    CASE a \in {"bob@gmail.com", "you@x.com", "noreply@x.com", "x@news.site.com"} -> {"com"}
      [] a = "coming?" -> {}
      [] a = " " -> {}
      [] OTHER -> Tokens(a)

\* re.findall(r'@(\w+)\.', a)
AtDomain(a) ==
    CASE a = "bob@gmail.com" -> {"gmail"}
      [] a \in {"you@x.com", "noreply@x.com"} -> {"x"}
      [] a = "x@news.site.com" -> {"news"}
      [] OTHER -> {}

\* k in text, k without a space
HasSub(text, k) == \E i \in DOMAIN text : k \in Within(text[i])

\* a keyword of several words: 'can you', r'can\s+you'
HasPhrase(text, ws) ==
    \E i \in DOMAIN text :
       /\ i + 2 * (Len(ws) - 1) <= Len(text)
       /\ \A j \in 1..Len(ws) :
             LET atom == text[i + 2 * (j - 1)]
             IN  /\ j > 1 => text[i + 2 * (j - 1) - 1] = " " /\ ws[j] \in Begins(atom)
                 /\ j < Len(ws) => ws[j] \in Ends(atom)
                 /\ (j = 1 /\ j = Len(ws)) => ws[j] \in Tokens(atom)

\* one regular expression: alternatives of one word and of several words
Pattern(words, phrases) == [words |-> words, phrases |-> phrases]

\* re.search(pattern, text, re.IGNORECASE)
Search(pattern, text) ==
    \/ \E i \in DOMAIN text : Tokens(text[i]) \cap pattern.words # {}
    \/ \E ws \in pattern.phrases : HasPhrase(text, ws)

(* -------------------- HybridEmailCategorizerAgent --------------------- *)
\* r'%\s*off' of the first promotion pattern needs a "%": none in the texts here
promotion_patterns ==
    <<Pattern({"offer", "discount", "sale", "promo", "deal", "save", "free"},
              {<<"limited", "time">>, <<"special", "price">>}),
      Pattern({}, {<<"buy", "now">>, <<"shop", "now">>, <<"order", "now">>,
                   <<"get", "yours">>, <<"upgrade", "now">>}),
      Pattern({"clearance"}, {<<"black", "friday">>, <<"cyber", "monday">>,
                              <<"flash", "sale">>})>>

\* the third newsletter pattern, r'@(newsletter|digest|updates|news|mail|email)\.',
\* is NewsletterDomain
newsletter_patterns ==
    <<Pattern({"newsletter", "digest", "weekly", "monthly", "daily", "update", "roundup"}, {}),
      Pattern({"unsubscribe"}, {<<"manage", "preferences">>, <<"view", "in", "browser">>}),
      Pattern({}, {<<"tech", "news">>, <<"industry", "news">>, <<"latest", "news">>})>>

NewsletterDomain(text) ==
    \E i \in DOMAIN text :
       AtDomain(text[i]) \cap {"newsletter", "digest", "updates", "news", "mail", "email"} # {}

meeting_patterns ==
    <<Pattern({"meeting", "schedule", "calendar", "appointment", "call", "conference"}, {}),
      Pattern({"available", "availability"}, {<<"free", "time">>, <<"book", "time">>}),
      Pattern({"zoom", "teams", "webinar", "session"}, {<<"google", "meet">>}),
      Pattern({}, {<<l, v>> : l \in {"lets"}, v \in {"meet", "talk", "discuss", "schedule"}})>>

important_patterns ==
    <<Pattern({"urgent", "important", "deadline", "expire", "expires"},
              {<<"action", "required">>}),
      Pattern({"verify", "verification", "confirm", "security", "alert"}, {}),
      Pattern({"payment", "invoice", "bill", "account", "suspended"}, {}),
      Pattern({"login", "password", "access", "unauthorized"}, {})>>

\* the second personal pattern, r'@(gmail\.com|yahoo\.com|hotmail\.com|icloud\.com)$',
\* is PersonalDomain
personal_patterns ==
    <<Pattern({"congratulations", "family", "mom", "dad"}, {<<"happy", "birthday">>}),
      Pattern({"love", "miss"}, {<<"see", "you">>, <<"cant", "wait">>})>>

\* "$": the text ends with the address
PersonalDomain(text) ==
    /\ text # <<>>
    /\ text[Len(text)] \in {"bob@gmail.com"}

\* _count_patterns
count_patterns(text, patterns) ==
    Cardinality({i \in DOMAIN patterns : Search(patterns[i], text)})

\* dict order of scores
ScoreOrder == <<"Promotions", "Newsletters", "Meetings", "Important", "Personal">>

\* subject, sender, snippet and f"{subject} {sender} {snippet}", lowered
FieldText(email_data, field) == Lower(Get(email_data, field, <<>>))

CombinedText(email_data) ==
    FieldText(email_data, "subject") \o <<" ">> \o FieldText(email_data, "sender")
    \o <<" ">> \o FieldText(email_data, "snippet")

\* rule_based_categorize, lines 77-100: the five scores
Scores(email_data) ==
    LET subject == FieldText(email_data, "subject")
        sender == FieldText(email_data, "sender")
        all_text == CombinedText(email_data)
        Boost(b) == IF b THEN 2 ELSE 0
        One(b) == IF b THEN 1 ELSE 0
    IN  [category \in Categories |->
            CASE category = "Promotions" ->
                    count_patterns(all_text, promotion_patterns)
                    + Boost(\E k \in {"%", "off", "free", "sale", "offer"} : HasSub(subject, k))
              [] category = "Newsletters" ->
                    count_patterns(all_text, newsletter_patterns)
                    + One(NewsletterDomain(all_text))
                    + Boost(\E k \in {"newsletter", "digest", "noreply", "no-reply", "updates"} :
                               HasSub(sender, k))
              [] category = "Meetings" ->
                    count_patterns(all_text, meeting_patterns)
                    + Boost(\E k \in {"meeting", "schedule", "calendar", "invite"} :
                               HasSub(subject, k))
              [] category = "Important" ->
                    count_patterns(all_text, important_patterns)
                    + Boost((\E k \in {"urgent", "verify", "security"} : HasSub(subject, k))
                            \/ HasPhrase(subject, <<"action", "required">>))
              [] category = "Personal" ->
                    count_patterns(all_text, personal_patterns)
                    + One(PersonalDomain(all_text))]

MaxScore(scores) == CHOOSE m \in {scores[c] : c \in Categories} :
                       \A c \in Categories : scores[c] <= m

\* a mutation of rule_based_categorize: the first category that reaches the threshold
rule_based_categorize_first(email_data) ==
    LET scores == Scores(email_data)
        max_score == MaxScore(scores)
    IN  IF max_score < 2 THEN "uncertain"
        ELSE ScoreOrder[CHOOSE i \in DOMAIN ScoreOrder :
                           /\ scores[ScoreOrder[i]] >= 2
                           /\ \A j \in 1..(i - 1) : scores[ScoreOrder[j]] < 2]

\* rule_based_categorize
rule_based_categorize(email_data) ==
    LET scores == Scores(email_data)
        max_score == MaxScore(scores)
    IN  IF max_score < 2 THEN "uncertain"
        ELSE ScoreOrder[CHOOSE i \in DOMAIN ScoreOrder :
                           /\ scores[ScoreOrder[i]] = max_score
                           /\ \A j \in 1..(i - 1) : scores[ScoreOrder[j]] # max_score]

\* the name of a category as the atoms of a reply
CategoryText(category) ==
    CASE category = "Important" -> <<"Important">>
      [] category = "Newsletters" -> <<"News", "letter", "s">>
      [] category = "Promotions" -> <<"Promo", "tion", "s">>
      [] category = "Meetings" -> <<"Meeting", "s">>
      [] category = "Personal" -> <<"Personal">>

Whitespace == {" ", "\n"}

\* str.strip()
Strip(text) ==
    LET keep == {i \in DOMAIN text : text[i] \notin Whitespace}
    IN  IF keep = {} THEN <<>>
        ELSE SubSeq(text, CHOOSE i \in keep : \A j \in keep : i <= j,
                          CHOOSE i \in keep : \A j \in keep : j <= i)

\* category if category in self.categories else 'Important'
ParseCategory(text) ==
    IF \E c \in Categories : Strip(text) = CategoryText(c)
    THEN CHOOSE c \in Categories : Strip(text) = CategoryText(c)
    ELSE "Important"

\* what a model call gives: a reply, or an exception
Reply_(text) == [raised |-> FALSE, text |-> text]

Raised == [raised |-> TRUE, text |-> <<>>]

\* the replies of the generative models
AgentReplies ==
    {<<"Important">>, <<"News", "letter", "s">>, <<"Promo", "tion", "s">>,
     <<"Meeting", "s">>, <<"Personal">>, <<"Spam">>, <<>>,
     <<"Important", "\n">>, <<"important">>, <<"Important", " ", "news">>}

Outcomes == {Raised} \cup {Reply_(text) : text \in AgentReplies}

\* openai_fallback
openai_fallback(openai_client, openai) ==
    IF ~openai_client THEN [category |-> "Important", calls |-> <<>>]
    ELSE IF openai.raised THEN [category |-> "Important", calls |-> <<openai>>]
    ELSE [category |-> ParseCategory(openai.text), calls |-> <<openai>>]

\* gemini_categorize; gemini and openai are what the two model calls give
gemini_categorize(gemini_model, gemini, openai_client, openai) ==
    IF ~gemini_model THEN [category |-> "Important", calls |-> <<>>]
    ELSE IF gemini.raised
    THEN LET fallback == openai_fallback(openai_client, openai)
         IN  [category |-> fallback.category, calls |-> <<gemini>> \o fallback.calls]
    ELSE [category |-> ParseCategory(gemini.text), calls |-> <<gemini>>]

\* HybridEmailCategorizerAgent.categorize_email
\* rule_category is what rule_based_categorize(email_data) gave (line 197), ai what
\* gemini_categorize gives when it is called (line 207)
hybrid_categorize_email(rule_category, ai) ==
    IF rule_category # "uncertain"
    THEN [category |-> rule_category, method |-> "rule-based", calls |-> <<>>]
    ELSE [category |-> ai.category, method |-> "gemini-flash", calls |-> ai.calls]

(* --------------------------- should_respond --------------------------- *)
\* a marker of one word is a string, a marker of several words a sequence
no_respond_markers ==
    {"newsletter", "digest", "unsubscribe", "notification", "noreply", "no-reply",
     "donotreply", "automated", "system", "bot", "updates-noreply", "notifications@"}

respond_markers ==
    {"question", "?", "inquiry", "request", "help", "need", "meeting", "schedule",
     "availability", "urgent", "important", "please"}

respond_phrases == {<<"can", "you">>, <<"would", "you">>, <<"could", "you">>}

\* OllamaEmailResponderAgent.should_respond
should_respond(email_data) ==
    LET all_text == CombinedText(email_data)
    IN  IF \E pattern \in no_respond_markers : HasSub(all_text, pattern) THEN FALSE
        ELSE IF \/ \E pattern \in respond_markers : HasSub(all_text, pattern)
                \/ \E pattern \in respond_phrases : HasPhrase(all_text, pattern)
        THEN TRUE
        ELSE FALSE

\* r'\b\?\b': a question mark with a word character on both sides
QuestionInside(a) == a \in {"why?not"}

\* the first respond pattern also has the alternative \?, which is QuestionInside
hybrid_respond_patterns ==
    <<Pattern({"question", "inquiry", "request", "help", "need", "require"}, {}),
      Pattern({"meeting", "schedule", "availability", "when", "time"}, {}),
      Pattern({"please"}, {<<"can", "you">>, <<"would", "you">>, <<"could", "you">>}),
      Pattern({"urgent", "important", "asap", "immediately"}, {})>>

\* the fourth pattern, r'@(newsletter|digest|noreply|notification)\.', is AutomatedDomain
hybrid_no_respond_patterns ==
    <<Pattern({"newsletter", "digest", "unsubscribe", "notification"}, {}),
      Pattern({"noreply", "no-reply", "donotreply", "do-not-reply"}, {}),
      Pattern({"automated", "automatic", "system", "bot"}, {})>>

AutomatedDomain(text) ==
    \E i \in DOMAIN text :
       AtDomain(text[i]) \cap {"newsletter", "digest", "noreply", "notification"} # {}

\* CostOptimizedResponderAgent.should_respond
hybrid_should_respond(email_data) ==
    LET all_text == CombinedText(email_data)
    IN  IF \/ \E i \in DOMAIN hybrid_no_respond_patterns :
                 Search(hybrid_no_respond_patterns[i], all_text)
           \/ AutomatedDomain(all_text)
        THEN FALSE
        ELSE IF \/ \E i \in DOMAIN hybrid_respond_patterns :
                      Search(hybrid_respond_patterns[i], all_text)
                \/ \E i \in DOMAIN all_text : QuestionInside(all_text[i])
        THEN TRUE
        ELSE FALSE

(* ------------------------ the agents on their own --------------------- *)
AgentWords ==
    {"Sale", "URGENT", "Meeting", "Newsletter", "robot", "coming?", "Can", "office"}

AgentSenders == {<<"bob@gmail.com">>, <<"you@x.com">>, <<"noreply@x.com">>,
                 <<"x@news.site.com">>}

AgentSnippets == {<<>>, <<"hello">>, <<"Sale">>}

\* the messages handed to the agents
AgentEmails ==
    {[id |-> M1, subject |-> Spaced(ws), sender |-> sender, snippet |-> snippet] :
        ws \in UNION {[1..n -> AgentWords] : n \in 0..MaxWords},
        sender \in AgentSenders,
        snippet \in AgentSnippets}

\* decision.calls lists what the model calls of the operation gave, in order; one
\* operation is applied to each probe
NotApplied == [op |-> "none", result |-> "none", calls |-> <<>>]

InitAgents ==
    /\ InitHandlers
    /\ InitDefaults
    /\ decision = NotApplied
    /\ probe \in AgentEmails
    /\ inbox = {}
    /\ gmail_client = TRUE
    /\ calendar_client = TRUE

Applied(op, result, calls) ==
    /\ decision' = [op |-> op, result |-> result, calls |-> calls]
    /\ UNCHANGED <<probe, cacheVars, clientVars, effectVars, threadVars, ctlVars, pollVars, monitorVars, chatVars>>

\* rule_based_categorize(probe)
RuleBasedCategorize ==
    /\ decision = NotApplied
    /\ Applied("rule", rule_based_categorize(probe), <<>>)

\* what the second provider gives
OpenaiOutcomes ==
    {Raised, Reply_(<<"Personal">>), Reply_(<<"Spam">>), Reply_(<<"Important", "\n">>)}

\* gemini_categorize over the providers' configurations and answers
GeminiResults ==
    {gemini_categorize(gemini_model, gemini, openai_client, openai) :
        gemini_model \in BOOLEAN, gemini \in Outcomes,
        openai_client \in BOOLEAN, openai \in OpenaiOutcomes}

\* gemini_categorize(probe)
GeminiCategorize ==
    /\ decision = NotApplied
    /\ \E ai \in GeminiResults : Applied("gemini", ai.category, ai.calls)

\* HybridEmailCategorizerAgent.categorize_email(probe)
HybridCategorize ==
    /\ decision = NotApplied
    /\ \E rule_category \in {rule_based_categorize(probe)}, ai \in GeminiResults :
          LET r == hybrid_categorize_email(rule_category, ai)
          IN  Applied("hybrid", r.category, r.calls)

\* OllamaEmailCategorizerAgent.categorize_email(probe): _call_ollama gives the reply,
\* or "" when the call failed
OllamaCategorize ==
    /\ decision = NotApplied
    /\ \E response \in AgentReplies :
          Applied("ollama", categorize_email(probe, response), <<Reply_(response)>>)

\* the categorization of probe in _process_new_emails (lines 198-216)
PollCategorize ==
    /\ decision = NotApplied
    /\ \E response \in AgentReplies, raised \in BOOLEAN :
          Applied("poll", Categorized(probe, response, raised).ai_category,
                  <<IF raised THEN Raised ELSE Reply_(response)>>)

\* OllamaEmailResponderAgent.should_respond(probe)
ShouldRespond ==
    /\ decision = NotApplied
    /\ Applied("should_respond", should_respond(probe), <<>>)

\* CostOptimizedResponderAgent.should_respond(probe)
HybridShouldRespond ==
    /\ decision = NotApplied
    /\ Applied("hybrid_should_respond", hybrid_should_respond(probe), <<>>)

NextAgents ==
    \/ RuleBasedCategorize
    \/ GeminiCategorize
    \/ HybridCategorize
    \/ OllamaCategorize
    \/ PollCategorize
    \/ ShouldRespond
    \/ HybridShouldRespond

SpecAgents == InitAgents /\ [][NextAgents]_vars

(* ------------------------ the filter on its own ----------------------- *)
\* a dict with or without the key: opt is <<>> or <<value>>
OptWith(email_data, key, opt) ==
    IF opt = <<>> THEN email_data ELSE With(email_data, key, opt[1])

\* the messages handed to the filter: any category (also none, also ""), any
\* subject of up to MaxSubjectLen atoms, any of the senders, any meeting flag
ProbeEmails ==
    {OptWith(OptWith([id |-> M1, subject |-> subject, sender |-> sender],
                     "ai_category", category),
             "is_meeting_request", is_meeting) :
        subject \in TextsUpTo(SubjectAtoms, MaxSubjectLen),
        sender \in ProbeSenders,
        category \in {<<>>, <<"">>} \cup {<<c>> : c \in Categories},
        is_meeting \in {<<>>, <<TRUE>>, <<FALSE>>}}

InitFilter ==
    /\ InitHandlers
    /\ InitDefaults
    /\ decision = "none"
    /\ probe \in ProbeEmails
    /\ inbox = {}
    /\ gmail_client = TRUE
    /\ calendar_client = TRUE

\* filter.should_notify(probe), called directly
FilterDecide ==
    /\ decision = "none"
    /\ decision' = IF should_notify(probe) THEN "notify" ELSE "skip"
    /\ UNCHANGED <<probe, cacheVars, clientVars, effectVars, threadVars, ctlVars, pollVars, monitorVars, chatVars>>

\* process_important_emails([probe]) on a fresh handler
FilterProcess ==
    /\ decision = "none"
    /\ decision' = "processed"
    /\ \E send_ok \in BOOLEAN :
          SetStore(S, ProcessAll(Store(S), <<probe>>, <<send_ok>>))
    /\ UNCHANGED <<probe, pending_responses, responses_file, clientVars, effectVars, threadVars, ctlVars, pollVars, monitorVars>>

\* filter.get_notification_priority(probe), called directly
FilterPriority ==
    /\ decision = "none"
    /\ decision' = get_notification_priority(probe)
    /\ UNCHANGED <<probe, cacheVars, clientVars, effectVars, threadVars, ctlVars, pollVars, monitorVars, chatVars>>

NextFilter ==
    \/ FilterDecide
    \/ FilterProcess
    \/ FilterPriority

SpecFilter == InitFilter /\ [][NextFilter]_vars


(* ============================= the claims ============================== *)
\* what the claims say of a message, read off its fields rather than computed by
\* the filter
CategoryOf(email_data) == Get(email_data, "ai_category", "")

MeetingFlag(email_data) == Get(email_data, "is_meeting_request", FALSE)

UrgentWords == {"urgent", "deadline", "expires", "verify", "security"}

HasUrgentKeyword(subject) ==
    \/ \E i \in DOMAIN subject : LowerAtom(subject[i]) \in UrgentWords
    \/ \E i \in 1..(Len(subject) - 1) :
          LowerAtom(subject[i]) = "action " /\ LowerAtom(subject[i + 1]) = "required"

EduWords == {".edu", "university", "college", "school"}

HasEduPattern(sender) == \E i \in DOMAIN sender : LowerAtom(sender[i]) \in EduWords

IsEduAddress(sender) == sender # <<>> /\ LowerAtom(sender[Len(sender)]) = ".edu"

Decided == decision \in {"notify", "skip"}

\* process_important_emails notified probe: it cached it or sent its buttons
ProbeNotified == probe.id \in DOMAIN email_cache[S] \/ buttons # {}

\* C1: should_notify answers true for every message whose ai_category is
\* "Important", whatever its subject, sender and meeting flag are.
C1_ImportantAlwaysNotified ==
    (Decided /\ CategoryOf(probe) = "Important") => decision = "notify"

C1_Witness ==
    /\ decision = "notify"
    /\ CategoryOf(probe) = "Important"
    /\ "is_meeting_request" \in DOMAIN probe /\ ~probe.is_meeting_request
    /\ probe.subject = <<"Sale">>
    /\ probe.sender = <<"bob@", "gmail.com">>

\* C2: should_notify answers true for every message with the meeting flag set, or
\* category "Meetings", or an urgent keyword in its subject in any letter case, or
\* an educational sender, also when its category is Promotions, Newsletters or
\* Personal.
C2_OverridesNotify ==
    (/\ Decided
     /\ \/ MeetingFlag(probe)
        \/ CategoryOf(probe) = "Meetings"
        \/ HasUrgentKeyword(probe.subject)
        \/ HasEduPattern(probe.sender))
    => decision = "notify"

C2_Witness ==
    /\ decision = "notify"
    /\ CategoryOf(probe) = "Promotions"
    /\ ~MeetingFlag(probe)
    /\ probe.subject = <<"Sale", "URGENT">>
    /\ probe.sender = <<"bob@", "gmail.com">>

\* C3 as stated: should_notify answers false for every message of category
\* Newsletters, Promotions or Personal with no urgent keyword in its subject, the
\* meeting flag false and a sender that is not a .edu address.
C3_AsStated ==
    (/\ Decided
     /\ CategoryOf(probe) \in {"Newsletters", "Promotions", "Personal"}
     /\ ~HasUrgentKeyword(probe.subject)
     /\ ~MeetingFlag(probe)
     /\ ~IsEduAddress(probe.sender))
    => decision = "skip"

\* C3, amended: the same with a sender that matches none of the educational
\* patterns (.edu, university, college, school).
C3_NeutralSuppressed ==
    (/\ Decided
     /\ CategoryOf(probe) \in {"Newsletters", "Promotions", "Personal"}
     /\ ~HasUrgentKeyword(probe.subject)
     /\ ~MeetingFlag(probe)
     /\ ~HasEduPattern(probe.sender))
    => decision = "skip"

C3_Witness ==
    /\ decision = "skip"
    /\ CategoryOf(probe) = "Newsletters"
    /\ "is_meeting_request" \in DOMAIN probe /\ ~probe.is_meeting_request
    /\ probe.subject = <<"Sale", " today">>
    /\ probe.sender = <<"bob@", "gmail.com">>

\* C4: a message with no category (ai_category missing or empty) is never
\* notified: should_notify answers false for it and process_important_emails
\* sends no notification for it, whatever its other fields are.
C4_UncategorizedNeverNotified ==
    CategoryOf(probe) = ""
    => /\ decision # "notify"
       /\ decision = "processed" => ~ProbeNotified

\* the id a callback acts for, and the step of one handler on one button
Terminal(parts) ==
    /\ \/ Ignore(parts)
       \/ Cancel(parts)
       \/ /\ Send(parts, TRUE)
          /\ SendMissing(parts) = {}
          /\ gmail_client
    /\ UNCHANGED <<clientVars, threadVars, ctlVars, pollVars, monitorVars, filterVars>>

\* C5: after a send, ignore or cancel callback completed for message id k, k is
\* absent from both cache mappings.
C5_TerminalClearsBoth ==
    [][\A parts \in buttons :
          Terminal(parts)
          => /\ ParsedId(parts) \notin DOMAIN email_cache'[S]
             /\ ParsedId(parts) \notin DOMAIN pending_responses'[S]]_vars

\* a button press for k finds its message data: in memory, or after the reload
Findable(k) == k \in (DOMAIN email_cache[S]) \cup (DOMAIN load_cache(cache_file))

FindableNext(k) == k \in (DOMAIN email_cache'[S]) \cup (DOMAIN load_cache(cache_file'))

Notified(k) == callback_data("ignore", k) \in buttons

RemovesSnapshot(parts) ==
    /\ Ignore(parts) \/ Done(parts) \/ Send(parts, TRUE)
    /\ UNCHANGED <<clientVars, threadVars, ctlVars, pollVars, monitorVars, filterVars>>

\* C6: in the system started by start_realtime, a message k whose notification was
\* sent stays in the snapshot store until a terminal action on k: a step after
\* which a button press for k no longer finds its data is a terminal action on k.
C6_SnapshotKeptUntilTerminal ==
    [][\A k \in {M1, M2} :
          (Notified(k) /\ Findable(k) /\ ~FindableNext(k))
          => \E parts \in buttons : ParsedId(parts) = k /\ RemovesSnapshot(parts)]_vars

\* the mappings the handler of the button parts reports as "not found"
Reported(parts) ==
    IF parts[1] = "send" THEN SendMissing(parts)
    ELSE IF parts[1] \in {"reply", "schedule", "view", "ignore", "done", "time"}
            /\ ParsedId(parts) \notin DOMAIN CacheAfterLookup(parts)
    THEN {"email"}
    ELSE {}

FileOf(mapping) == IF mapping = "email" THEN cache_file ELSE responses_file

\* C7: for both mappings, the callback handler reports "not found" for k only
\* after re-reading the mapping from its file and still missing k: whichever
\* button of the chat is pressed next, a mapping it reports as missing was reloaded.
C7_ReloadBeforeMiss ==
    \A parts \in buttons :
       \A mapping \in Reported(parts) :
          /\ mapping \in Reloaded(parts)
          /\ ParsedId(parts) \notin DOMAIN load_cache(FileOf(mapping))

\* C8: every put and delete is flushed at once, so with one handler instance each
\* backing file always holds exactly the in-memory mapping.
C8_FileEqualsMapping ==
    /\ load_cache(cache_file) = email_cache[S]
    /\ load_cache(responses_file) = pending_responses[S]
    /\ cache_file.exists => cache_file.items = pickle_dump(email_cache[S])
    /\ responses_file.exists => responses_file.items = pickle_dump(pending_responses[S])

\* a snapshot was deleted (ignore or done) while a draft put by reply remains
C8_Witness ==
    /\ cache_file.exists
    /\ M2 \notin DOMAIN email_cache[S]
    /\ M2 \in DOMAIN pending_responses[S]
    /\ M1 \in DOMAIN email_cache[S]

\* put(k, v), _save_cache, _load_cache on the mapping d and its file
RoundTrip(d, file, k, v) ==
    LET reloaded == load_cache(save_cache(Put(d, k, v), file))
    IN  /\ DOMAIN reloaded = (DOMAIN d) \cup {k}
        /\ reloaded[k] = v
        /\ \A j \in (DOMAIN d) \ {k} : reloaded[j] = d[j]

Snapshots ==
    {test_email} \cup {Categorized(email, <<"Spam">>, raised) :
                          email \in inbox, raised \in BOOLEAN}

\* C9: for either store, put(k, v) followed by a reload from the backing file gives
\* v for k and leaves every other key with the value it had.
C9_RoundTrip ==
    \A k \in Ids :
       /\ \A v \in Snapshots : RoundTrip(email_cache[S], cache_file, k, v)
       /\ \A v \in Drafts : RoundTrip(pending_responses[S], responses_file, k, v)

\* both stores hold entries the put must leave alone
C9_Witness ==
    /\ Cardinality(DOMAIN email_cache[S]) >= 2
    /\ Cardinality(DOMAIN pending_responses[S]) >= 2

\* C10: an iteration of the message-poll loop whose fetch failed increments the
\* consecutive-error counter, and at 5 the loop ends with is_running false; an
\* iteration that succeeded resets the counter to 0.
C10_FetchFailureCounted ==
    [][(mon_pc = "finish" /\ mon_pc' # "finish")
       => IF iter_fetch_failed
          THEN /\ error_count' = error_count + 1
               /\ error_count' >= max_errors => ~is_running'
          ELSE error_count' = 0]_vars

HasStrongKeyword(subject) ==
    \/ \E i \in DOMAIN subject : LowerAtom(subject[i]) \in {"urgent", "deadline"}
    \/ \E i \in 1..(Len(subject) - 1) :
          \/ LowerAtom(subject[i]) = "action " /\ LowerAtom(subject[i + 1]) = "required"
          \/ LowerAtom(subject[i]) = "expires" /\ LowerAtom(subject[i + 1]) = " today"

\* C15: get_notification_priority answers "high" when the subject holds a strong
\* urgency keyword (urgent, deadline, expires today, action required, any case),
\* else "medium" for category Important or Meetings or a set meeting flag, else "low".
C15_PriorityLevels ==
    decision \in {"high", "medium", "low"}
    => decision = IF HasStrongKeyword(probe.subject) THEN "high"
                  ELSE IF CategoryOf(probe) \in {"Important", "Meetings"}
                          \/ MeetingFlag(probe) THEN "medium"
                  ELSE "low"

\* "expires" without "today" is not strong: the meeting flag alone gives medium
C15_Witness ==
    /\ decision = "medium"
    /\ probe.subject = <<"Sale", "Expires">>
    /\ CategoryOf(probe) = "Promotions"
    /\ MeetingFlag(probe)

(* C16: the rule classifier answers "uncertain" exactly when the highest of the
   five category scores is below 2; otherwise it answers a category whose score
   equals that highest score. *)
C16_UncertainBelowTwo ==
    decision.op = "rule"
    => LET scores == Scores(probe)
       IN  /\ decision.result = "uncertain" <=> \A c \in Categories : scores[c] < 2
           /\ decision.result # "uncertain"
              => /\ decision.result \in Categories
                 /\ \A c \in Categories : scores[c] <= scores[decision.result]

\* a later category wins over an earlier one that also reached the threshold
C16_Witness ==
    /\ decision.op = "rule" /\ decision.result = "Meetings"
    /\ Scores(probe)["Newsletters"] = 2 /\ Scores(probe)["Meetings"] = 3

(* C13: for every message the poll loop processes, the rule classifier is tried
   first and a generative-model call is made only when the rule classifier
   answered "uncertain": a message the rule classifier can decide causes no
   model call. *)
C13_RuleFirst ==
    decision.op = "poll"
    => (decision.calls # <<>> => rule_based_categorize(probe) = "uncertain")

\* the answer of the last model call of the operation
LastCall == decision.calls[Len(decision.calls)]

(* C14: the generative classifier returns the model's reply when the reply
   exactly equals one of the categories, "Important" for every other reply,
   and "Important" when the model call failed or gave an empty reply. *)
C14_ExactOrDefault ==
    (decision.op \in {"gemini", "ollama"} /\ decision.calls # <<>>)
    => IF /\ ~LastCall.raised
          /\ \E c \in Categories : Strip(LastCall.text) = CategoryText(c)
       THEN Strip(LastCall.text) = CategoryText(decision.result)
       ELSE decision.result = "Important"

\* subject, sender and snippet of the probe, lowered
ProbeFields == {FieldText(probe, field) : field \in {"subject", "sender", "snippet"}}

\* a marker of the keyword predicate is in one of the fields
AutomatedMarker ==
    \E text \in ProbeFields : \E m \in no_respond_markers : HasSub(text, m)

NeedsReplyMarker ==
    \E text \in ProbeFields :
       \/ \E m \in respond_markers : HasSub(text, m)
       \/ \E ws \in respond_phrases : HasPhrase(text, ws)

\* a marker of the regular-expression predicate is in one of the fields
HybridAutomatedMarker ==
    \E text \in ProbeFields :
       \/ \E i \in DOMAIN hybrid_no_respond_patterns :
             Search(hybrid_no_respond_patterns[i], text)
       \/ AutomatedDomain(text)

HybridNeedsReplyMarker ==
    \E text \in ProbeFields :
       \/ \E i \in DOMAIN hybrid_respond_patterns : Search(hybrid_respond_patterns[i], text)
       \/ HasSub(text, "?")

(* C17: should_respond answers false whenever subject, sender or snippet contains
   an automated marker, also when a needs-reply marker is present; with no
   automated marker it answers true exactly when a needs-reply marker is
   present. *)
C17_AutomatedFirst ==
    /\ decision.op = "should_respond"
       => decision.result = (~AutomatedMarker /\ NeedsReplyMarker)
    /\ decision.op = "hybrid_should_respond"
       => decision.result = (~HybridAutomatedMarker /\ HybridNeedsReplyMarker)

\* the verb a button was emitted with
ButtonVerb(parts) == IF parts[1] = "custom" THEN <<"custom", "time">> ELSE <<parts[1]>>

(* C18: for every button the bot has emitted for a message id, the callback
   handler decodes the button's data to the verb and the message id the button
   was emitted with, and for a time button to its slot index; also for an id
   with an underscore such as "test_123". *)
C18_CallbackRoundTrip ==
    \A parts \in buttons :
       /\ <<parts[1]>> = ButtonVerb(parts)
       /\ ParsedId(parts) = ButtonId(parts)
       /\ parts[1] = "time" => IntOf(parts[3]) = IntOf(parts[Len(parts)])

(* C11: the watermark never moves past a message that was not handed to
   classification: when last_check_time advances to or beyond the date of a
   message of the inbox, that message is among the messages the fetch of this
   iteration returned as new; also for a message that arrived while the batch
   was processed or during an iteration whose fetch failed.  (Messages whose
   date cannot be parsed are left out: they are returned by every fetch.) *)
C11_WatermarkBehindHanded ==
    [][\A message \in inbox :
          (/\ message.date.whole
           /\ last_check_time < message.date.time
           /\ message.date.time <= last_check_time')
          => \E i \in DOMAIN new_emails : new_emails[i].id = message.id]_vars

\* what a step of process_important_emails may change
notifyVars == <<mon_pc, batch, notification_count, cacheVars, chatVars>>

\* the notify step of one message of the batch
NotifyStep ==
    (mon_pc = "notify" /\ notifyVars' # notifyVars)
    => LET email == Head(batch)
       IN  /\ batch' = Tail(batch)
           /\ should_notify(email) => email.id \in DOMAIN email_cache'["monitor"]
           /\ notification_count' \in {notification_count, notification_count + 1}
           /\ notification_count' = notification_count + 1
              => should_notify(email) /\ NotificationButtons(email) \subseteq buttons'
           /\ buttons' # buttons => notification_count' = notification_count + 1

(* C19: in one batch of the poll loop no message's failed classification or
   failed send keeps the other messages from being classified, filtered and
   notified: every message the fetch returned is in the classified batch in
   the same order, a message whose classification raised has category
   "Important" and is_meeting_request false and goes to the filter like the
   others, and a send that failed is not counted while the loop goes on with
   the next message. *)
C19_BatchIsolation ==
    /\ [](mon_pc = "classify"
          => \A i \in DOMAIN batch : batch[i].id = new_emails[i].id)
    /\ [](mon_pc = "notify"
          => /\ batch # <<>> /\ Len(batch) <= Len(new_emails)
             /\ \A i \in DOMAIN batch :
                   batch[i].id = new_emails[Len(new_emails) - Len(batch) + i].id)
    /\ []((classify_error /\ batch # <<>>)
          => /\ batch[Len(batch)].ai_category = "Important"
             /\ ~batch[Len(batch)].is_meeting_request)
    /\ [][NotifyStep]_vars

\* the send for the first message failed, the classification of the second raised,
\* and the second is about to be filtered
C19_Witness ==
    /\ mon_pc = "notify" /\ Len(new_emails) = 2 /\ Len(batch) = 1
    /\ classify_error
    /\ new_emails[1].id \in DOMAIN email_cache["monitor"]
    /\ notification_count = 0 /\ buttons = {}

(* C12: in the callback-poll loop the cursor never decreases, every poll asks for
   the updates from the last seen update id + 1, the updates are dispatched in
   arrival order and none is dispatched more than once, also when a handler
   raises in the middle of a batch. *)
C12_CursorMonotone ==
    /\ [][last_update_id' >= last_update_id]_vars
    /\ [][offset' # offset => offset' = last_update_id + 1]_vars
    /\ [](\A i, j \in DOMAIN dispatched : i < j => dispatched[i] < dispatched[j])
    /\ [](poll_pc = "dispatch" => Head(poll_batch).update_id = last_update_id + 1)

\* of the updates asked for from offset 1 the first was handled and the handler
\* raised for the second; a third waits for the next poll
C12_Witness ==
    /\ poll_error
    /\ offset = 1
    /\ dispatched = <<1, 2>>
    /\ last_update_id = 2
    /\ Len(updates) = 3
    /\ poll_pc = "get"

(* C20: only the consecutive-failure counter of the message-poll loop ends a loop:
   the callback-poll loop never stops, an error while fetching or dispatching
   updates leads to the next poll, and the message-poll loop stops only when its
   counter has reached max_errors. *)
C20_OnlyCounterEnds ==
    /\ [](poll_pc \in {"get", "dispatch"})
    /\ [][poll_error' /\ ~poll_error => poll_pc' = "get"]_vars
    /\ [][is_running /\ ~is_running' => error_count' >= max_errors]_vars
    /\ [](~is_running => error_count >= max_errors)

\* the polling thread goes on after an error, and after the monitoring loop ended
C20_Witness ==
    /\ ~is_running
    /\ poll_error
    /\ poll_pc = "get"
    /\ dispatched # <<>>

(* C29: for every message, if should_notify answers false then
   get_notification_priority answers "low": a message whose priority is "high"
   or "medium" is one should_notify answers true for. *)
C29_SuppressedIsLow ==
    /\ decision = "skip" => get_notification_priority(probe) = "low"
    /\ decision \in {"high", "medium"} => should_notify(probe)

\* a suppressed message whose subject holds " today" without "expires"
C29_Witness ==
    /\ decision = "skip"
    /\ get_notification_priority(probe) = "low"
    /\ probe.subject = <<"Sale", " today">>
    /\ CategoryOf(probe) = "Personal"
    /\ probe.sender = <<"bob@", "gmail.com">>

(* C30: every button the bot attaches to a message (reply, view, done, ignore,
   schedule, send, edit, cancel, time slot, suggest different time) is routed by
   _handle_callback_query to a handler of its own: no button of the chat leads
   to the "Unknown action" answer. *)
C30_EveryButtonRouted == ~ENABLED CallbackUnknown

\* the keys of the snapshot store's backing file
Stored == DOMAIN load_cache(cache_file)

StoredNext == DOMAIN load_cache(cache_file')

(* ------------- process_important_emails, step by step ----------------- *)
\* a mutation of StoreSnapshot: the snapshot is not written before the send
StoreSnapshot_late(st, email) == st

\* lines 75-77: the put and the flush that precede the send
StoreSnapshot(st, email) ==
    LET cache2 == Put(st.cache, email.id, email)
    IN  [st EXCEPT !.cache = cache2, !.file = save_cache(cache2, st.file)]

\* lines 72-77 for the next email of the batch: the filter, the put and the flush
MonitorStore ==
    /\ mon_pc = "notify" /\ batch # <<>>
    /\ IF should_notify(Head(batch))
       THEN /\ SetStore("monitor", StoreSnapshot(Store("monitor"), Head(batch)))
            /\ mon_pc' = "send"
            /\ UNCHANGED batch
       ELSE /\ batch' = Tail(batch)
            /\ mon_pc' = IF Tail(batch) = <<>> THEN "finish" ELSE "notify"
            /\ UNCHANGED <<email_cache, cache_file, buttons>>
    /\ UNCHANGED <<is_running, error_count, iter_fetch_failed, inbox, clockVars,
                   new_emails, notification_count, classify_error,
                   pending_responses, responses_file, clientVars, effectVars, threadVars, ctlVars, pollVars, filterVars>>

\* lines 80-84: the notification send for that email
MonitorSend ==
    /\ mon_pc = "send"
    /\ \E send_ok \in BOOLEAN :
          /\ buttons' = IF send_ok THEN buttons \cup NotificationButtons(Head(batch))
                        ELSE buttons
          /\ notification_count' = IF send_ok THEN notification_count + 1
                                   ELSE notification_count
    /\ batch' = Tail(batch)
    /\ mon_pc' = IF Tail(batch) = <<>> THEN "finish" ELSE "notify"
    /\ UNCHANGED <<is_running, error_count, iter_fetch_failed, inbox, clockVars,
                   new_emails, classify_error, cacheVars, clientVars, effectVars, threadVars, ctlVars, pollVars, filterVars>>

\* RealTimeEmailSystem.start, the polling handler acting between the flush and the send
NextNotify ==
    \/ MonitorFetchFound
    \/ MonitorFetchNone
    \/ MonitorStore
    \/ MonitorSend
    \/ MonitorFinish
    \/ Callbacks

SpecNotify == Init /\ [][NextNotify]_vars

\* RealTimeEmailSystem.start without the /test command: the snapshot file is written
\* by notifications and by the terminal actions ignore, done and send only
NextStores ==
    \/ MonitorFetchFound
    \/ MonitorFetchNone
    \/ MonitorFetchFails
    \/ MonitorNotify
    \/ MonitorFinish
    \/ Callbacks

SpecStores == Init /\ [][NextStores]_vars

(* C25: once a terminal action has removed message id k from the backing file of
   the snapshot store, k comes back into the file only by a notification for k
   itself: a put of another key by the handler of the message-poll loop does not
   bring k back.  (In SpecStores a key is absent from the file when it was never
   notified or when a terminal action removed it.) *)
C25_RemovedStaysRemoved ==
    [][\A k \in {M1, M2} :
          (k \notin Stored /\ k \in StoredNext)
          => (mon_pc = "notify" /\ Head(batch).id = k)]_vars

(* C24: for every message that passes the notification filter,
   process_important_emails writes the snapshot to its in-memory mapping and to
   the backing file before it calls the notification send: the step that leads
   to the send has put the snapshot into both, a message that passes the filter
   does not leave the batch without that step, and when a notification is sent
   the handler's mapping holds the snapshot of its message. *)
C24_StoredBeforeSend ==
    /\ [][(mon_pc = "notify" /\ mon_pc' = "send")
          => LET email == Head(batch)
             IN  /\ email.id \in DOMAIN email_cache'["monitor"]
                 /\ email_cache'["monitor"][email.id] = email
                 /\ email.id \in StoredNext
                 /\ load_cache(cache_file')[email.id] = email]_vars
    /\ [][(mon_pc = "notify" /\ batch' # batch /\ batch # <<>>)
          => ~should_notify(Head(batch))]_vars
    /\ [][(buttons' # buttons /\ batch' # batch) => mon_pc = "send"]_vars
    /\ [](mon_pc = "send"
          => LET email == Head(batch)
             IN  /\ should_notify(email)
                 /\ email.id \in DOMAIN email_cache["monitor"]
                 /\ email_cache["monitor"][email.id] = email)

\* the second message of the run is stored and about to be sent, after the first
\* was notified and its reply drafted
C24_Witness ==
    /\ mon_pc = "send"
    /\ Head(batch).id = M1
    /\ {M1, M2} \subseteq Stored
    /\ callback_data("send", M2) \in buttons

(* ------------------- start_monitoring / stop_monitoring ---------------- *)
\* the intervals the monitor is constructed with: the default and start_realtime.py's 30,
\* and two longer ones
PollingIntervals == {30, 45, 120}

\* line 133: the argument of time.sleep after a failed iteration
error_wait(interval) == IF interval * 2 < 60 THEN interval * 2 ELSE 60

\* threading.Thread(target=self._monitoring_loop): the loop's locals at entry
NewThread == [pc |-> "test", error_count |-> 0, slept |-> 0]

\* everything the monitor's start, stop and loop leave alone
threadFrame ==
    <<error_count, mon_pc, batch, iter_fetch_failed, inbox, now, new_emails,
      notification_count, classify_error, cacheVars, clientVars, chatVars, filterVars,
      pollVars, effectVars, ctlVars, polling_interval>>

\* start_monitoring, lines 61-82 (the components are initialized)
StartMonitoring ==
    /\ Len(threads) < MaxThreads
    /\ ~is_running
    /\ is_running' = TRUE
    /\ last_check_time' = 0
    /\ threads' = Append(threads, NewThread)
    /\ UNCHANGED threadFrame

\* stop_monitoring, lines 84-95: join(timeout=5) returns whether or not the thread ended
StopMonitoring ==
    /\ is_running
    /\ is_running' = FALSE
    /\ UNCHANGED <<last_check_time, threads, threadFrame>>

\* line 102: while self.is_running
LoopTest(t) ==
    /\ threads[t].pc = "test"
    /\ threads' = [threads EXCEPT ![t].pc = IF is_running THEN "try" ELSE "exit"]
    /\ UNCHANGED <<is_running, last_check_time, threadFrame>>

\* lines 103-120: the try body ran to its end
LoopIteration(t) ==
    /\ threads[t].pc = "try"
    /\ threads' = [threads EXCEPT ![t] = [pc |-> "sleep", error_count |-> 0,
                                          slept |-> polling_interval]]
    /\ last_check_time' = now
    /\ UNCHANGED <<is_running, threadFrame>>

\* lines 124-133: the try body raised
LoopRaises(t) ==
    /\ threads[t].pc = "try"
    /\ LET count == threads[t].error_count + 1
       IN  threads' = [threads EXCEPT ![t] =
                          IF count >= max_errors
                          THEN [@ EXCEPT !.pc = "exit", !.error_count = count]
                          ELSE [pc |-> "sleep", error_count |-> count,
                                slept |-> error_wait(polling_interval)]]
    /\ UNCHANGED <<is_running, last_check_time, threadFrame>>

\* time.sleep returns
LoopWake(t) ==
    /\ threads[t].pc = "sleep"
    /\ threads' = [threads EXCEPT ![t].pc = "test"]
    /\ UNCHANGED <<is_running, last_check_time, threadFrame>>

\* line 135, after the loop
LoopExit(t) ==
    /\ threads[t].pc = "exit"
    /\ is_running' = FALSE
    /\ threads' = [threads EXCEPT ![t].pc = "done"]
    /\ UNCHANGED <<last_check_time, threadFrame>>

\* RealTimeEmailSystem.start with any interval: the first thread is started
InitThreads ==
    /\ InitHandlers
    /\ polling_interval \in PollingIntervals
    /\ threads = <<NewThread>>
    /\ auto_send = FALSE
    /\ decision = "none"
    /\ probe = NoProbe
    /\ inbox = {}
    /\ gmail_client = TRUE
    /\ calendar_client = TRUE

NextThreads ==
    \/ StartMonitoring
    \/ StopMonitoring
    \/ \E t \in DOMAIN threads : LoopTest(t)
    \/ \E t \in DOMAIN threads : LoopIteration(t)
    \/ \E t \in DOMAIN threads : LoopRaises(t)
    \/ \E t \in DOMAIN threads : LoopWake(t)
    \/ \E t \in DOMAIN threads : LoopExit(t)

SpecThreads == InitThreads /\ [][NextThreads]_vars

\* C21: a failed iteration that leaves the error counter below max_errors is followed by
\* a wait of exactly twice the configured polling interval, whatever the interval is
C21_WaitsTwiceInterval ==
    [][\A t \in DOMAIN threads :
          (threads[t].pc = "try" /\ threads'[t].pc = "sleep"
              /\ threads'[t].error_count = threads[t].error_count + 1)
          => threads'[t].slept = 2 * polling_interval]_vars

\* C26: at most one monitoring-loop thread is executing a poll iteration, after any sequence of start_monitoring and stop_monitoring
Iterating(t) == threads[t].pc = "try"

C26_OneLoopIterates ==
    \A t, u \in DOMAIN threads : Iterating(t) /\ Iterating(u) => t = u

(* --------------------- the bot server on its own ---------------------- *)
\* telegram_bot_server.py: a handler is constructed over the files an earlier run left
\* and polls; the chat still shows that run's messages for the meeting mail
EarlierSnapshot == Categorized(MeetingMail, <<"Important">>, FALSE)

EarlierFiles ==
    {[cache |-> save_cache(Put(EmptyDict, M2, EarlierSnapshot), NoFile), responses |-> r] :
        r \in {NoFile, save_cache(Put(EmptyDict, M2, "generated"), NoFile)}}

InitChat ==
    /\ \E f \in EarlierFiles :
          /\ cache_file = f.cache
          /\ responses_file = f.responses
          /\ email_cache = [h \in Handlers |-> load_cache(f.cache)]
          /\ pending_responses = [h \in Handlers |-> load_cache(f.responses)]
    /\ gmail_client \in BOOLEAN
    /\ calendar_client \in BOOLEAN
    /\ buttons = {callback_data("reply", M2), callback_data("schedule", M2),
                  callback_data("send", M2), callback_data("cancel", M2)}
                 \cup ScheduleButtons(EarlierSnapshot, 1)
    /\ is_running = FALSE
    /\ error_count = 0
    /\ mon_pc = "stopped"
    /\ batch = <<>>
    /\ iter_fetch_failed = FALSE
    /\ now = 1
    /\ last_check_time = 0
    /\ new_emails = <<>>
    /\ notification_count = 0
    /\ classify_error = FALSE
    /\ inbox = {}
    /\ updates = <<>>
    /\ last_update_id = 0
    /\ offset = 0
    /\ poll_pc = "get"
    /\ poll_batch = <<>>
    /\ poll_error = FALSE
    /\ dispatched = <<>>
    /\ sent = {}
    /\ events = {}
    /\ labels = {}
    /\ ctl_pc = "idle"
    /\ results = <<>>
    /\ InitDefaults
    /\ decision = "none"
    /\ probe = NoProbe

\* the user presses a button of the chat, MaxPresses times at most
UserPressChat == Len(updates) < MaxPresses /\ UserPress

NextChat ==
    \/ UserPressChat
    \/ PollGet
    \/ PollDispatch

SpecChat == InitChat /\ [][NextChat]_vars

\* the step hands a pressed button with this verb to _handle_callback_query, which
\* returns
Handling(verb) ==
    /\ poll_pc = "dispatch"
    /\ dispatched' # dispatched
    /\ ~poll_error'
    /\ "callback_query" \in DOMAIN Head(poll_batch)
    /\ Head(poll_batch).callback_query[1] = verb

Pressed == Head(poll_batch).callback_query

Kept == <<pending_responses, cache_file, responses_file>>

\* C22: a handler built without a mail client or without a calendar client goes on
\* handling callbacks; "send" without the mail client sends nothing and changes neither
\* mapping (nor a file), "schedule" and a time selection without the calendar client
\* create no event, store no draft and offer no times
C22_DisabledFeatureIsInert ==
    [][/\ Handling("send") /\ ~gmail_client
            => /\ sent' = {}
               /\ email_cache'[S] = CacheAfterLookup(Pressed)
               /\ UNCHANGED Kept
       /\ (Handling("schedule") \/ Handling("time")) /\ ~calendar_client
            => /\ events' = {}
               /\ UNCHANGED <<Kept, buttons>>
       /\ poll_pc' # "stopped"
       /\ UNCHANGED clientVars]_vars

\* a "send" press for a message with snapshot and draft was handled without a mail
\* client, and a time selection without a calendar client
C22_Witness ==
    /\ ~gmail_client /\ ~calendar_client
    /\ offset = 1 /\ Len(dispatched) = 2 /\ ~poll_error
    /\ updates[1].callback_query = callback_data("send", M2)
    /\ updates[2].callback_query = callback_data("time", M2) \o <<"0">>
    /\ M2 \in DOMAIN email_cache[S] /\ M2 \in DOMAIN pending_responses[S]

\* C27: a reply is sent only by a handled "send" press whose message has a snapshot and
\* a draft at that moment; the send and a "cancel" both leave the message without a
\* draft, so a repeated "send" sends nothing until "reply" or a time selection stores
\* a new one
C27_SendNeedsSnapshotAndDraft ==
    [][/\ sent' # {} /\ dispatched' # dispatched
            => /\ Handling("send")
               /\ ParsedId(Pressed) \in DOMAIN CacheAfterLookup(Pressed)
               /\ ParsedId(Pressed) \in DOMAIN pending_responses[S]
               /\ sent' = {ParsedId(Pressed)}
               /\ ParsedId(Pressed) \notin DOMAIN pending_responses'[S]
               /\ ParsedId(Pressed) \notin DOMAIN email_cache'[S]
       /\ dispatched' = dispatched => sent' = sent
       /\ Handling("cancel") => ParsedId(Pressed) \notin DOMAIN pending_responses'[S]
       /\ \A k \in Ids :
             k \notin DOMAIN pending_responses[S] /\ k \in DOMAIN pending_responses'[S]
                => (Handling("reply") \/ Handling("time")) /\ ParsedId(Pressed) = k]_vars

\* "send" was pressed twice for the same message: the first press sent the reply and
\* removed snapshot and draft, the second one sent nothing
C27_Witness ==
    /\ offset = 1 /\ Len(dispatched) = 2 /\ ~poll_error
    /\ updates[1].callback_query = callback_data("send", M2)
    /\ updates[2].callback_query = callback_data("send", M2)
    /\ M2 \notin DOMAIN email_cache[S] /\ M2 \notin DOMAIN load_cache(cache_file)
    /\ M2 \notin DOMAIN pending_responses[S]
    /\ sent = {}

\* C28: when the provider does not accept the reply of a "send" press (failure or
\* exception), snapshot and draft stay in both mappings and both files as they were,
\* so the draft can be sent by a later "send"
C28_FailedSendKeepsBoth ==
    [][Handling("send") /\ gmail_client /\ SendMissing(Pressed) = {} /\ sent' = {}
          => /\ email_cache'[S] = CacheAfterLookup(Pressed)
             /\ UNCHANGED Kept
             /\ ParsedId(Pressed) \in DOMAIN email_cache'[S]
             /\ ParsedId(Pressed) \in DOMAIN load_cache(cache_file')
             /\ pending_responses'[S][ParsedId(Pressed)]
                   = load_cache(responses_file')[ParsedId(Pressed)]]_vars

\* the first of two "send" presses was handled with the provider failing: snapshot and
\* draft are where they were and the second press is about to be handled
C28_Witness ==
    /\ gmail_client
    /\ offset = 1 /\ ~poll_error /\ Len(dispatched) = 1 /\ poll_pc = "dispatch"
    /\ updates[1].callback_query = callback_data("send", M2)
    /\ Head(poll_batch).callback_query = callback_data("send", M2)
    /\ SendMissing(callback_data("send", M2)) = {}
    /\ sent = {}

(* ---------------------- EmailAssistantController ---------------------- *)
\* OllamaMeetingSchedulerAgent.is_meeting_request: keyword in f"{subject} {snippet}"
scheduler_keywords ==
    {"meeting", "schedule", "calendar", "appointment", "call", "conference", "zoom",
     "teams", "meet", "session", "webinar", "availability", "available", "discuss",
     "invite"}

scheduler_phrases ==
    {<<"free", "time">>, <<"book", "time">>, <<"let's", "talk">>, <<"catch", "up">>}

scheduler_is_meeting_request(email_data) ==
    LET all_text == FieldText(email_data, "subject") \o <<" ">>
                    \o FieldText(email_data, "snippet")
    IN  \/ \E keyword \in scheduler_keywords : HasSub(all_text, keyword)
        \/ \E phrase \in scheduler_phrases : HasPhrase(all_text, phrase)

\* _process_emails, lines 96-144, for one email: reply is the categorizer model's
\* answer, n the number of times suggest_meeting_times gave, response the text the
\* responder or the scheduler generated (never empty)
ProcessedEmail(email, reply, n, response) ==
    LET is_meeting == scheduler_is_meeting_request(email)
        e1 == With(With(email, "ai_category", categorize_email(email, reply)),
                   "is_meeting_request", is_meeting)
        e2 == IF is_meeting /\ calendar_client THEN With(e1, "suggested_times", n) ELSE e1
        e3 == With(e2, "should_respond", should_respond(e2))
    IN  IF e3.should_respond THEN With(e3, "generated_response", response) ELSE e3

\* a mutation of run: the actions are executed whatever the toggle says
after_summary_always(toggle) == "execute"

\* run, lines 65-67: if self.auto_send: self._execute_actions(results)
after_summary(toggle) == IF toggle THEN "execute" ELSE "done"

\* run, lines 53-57: no emails found
CtlFetchNone ==
    /\ ctl_pc = "idle"
    /\ ctl_pc' = "done"
    /\ UNCHANGED <<auto_send, results, labels, cacheVars, clientVars, monitorVars,
                   chatVars, filterVars, pollVars, effectVars, threadVars>>

\* run, lines 53-60: up to MaxBatch emails fetched and processed
CtlProcess ==
    /\ ctl_pc = "idle"
    /\ \E n \in 1..MaxBatch :
          \E emails \in [1..n -> inbox], reply \in [1..n -> ModelReplies],
             times \in [1..n -> 0..MaxSlots], response \in [1..n -> Drafts] :
             results' = [i \in 1..n |->
                            ProcessedEmail(emails[i], reply[i], times[i], response[i])]
    /\ ctl_pc' = "summary"
    /\ UNCHANGED <<auto_send, labels, cacheVars, clientVars, monitorVars,
                   chatVars, filterVars, pollVars, effectVars, threadVars>>

\* _generate_summary, lines 176-181: process_important_emails(results) of the
\* controller's own handler (the handler that does not poll), then lines 65-67
CtlSummary ==
    /\ ctl_pc = "summary"
    /\ \E send_ok \in [1..Len(results) -> BOOLEAN] :
          SetStore("monitor", ProcessAll(Store("monitor"), results, send_ok))
    /\ ctl_pc' = after_summary(auto_send)
    /\ UNCHANGED <<auto_send, results, labels, pending_responses, responses_file,
                   clientVars, monitorVars, filterVars, pollVars, effectVars, threadVars>>

\* _execute_actions, lines 217-260, for the next result; label_ok, send_ok and event_ok
\* are what add_label, send_email and create_meeting_from_email returned
CtlExecute ==
    /\ ctl_pc = "execute" /\ results # <<>>
    /\ LET result == Head(results)
           email_id == Get(result, "id", NoId)
       IN  \E label_ok \in BOOLEAN, send_ok \in BOOLEAN, event_ok \in BOOLEAN :
              /\ labels' = IF Get(result, "ai_category", "") # "" /\ label_ok
                           THEN labels \cup {<<email_id, result.ai_category>>}
                           ELSE labels
              /\ sent' = IF Get(result, "should_respond", FALSE)
                            /\ Get(result, "generated_response", "") # "" /\ send_ok
                         THEN {email_id} ELSE {}
              /\ events' = IF Get(result, "is_meeting_request", FALSE) /\ calendar_client
                              /\ Get(result, "suggested_times", 0) > 0 /\ event_ok
                           THEN {email_id} ELSE {}
    /\ results' = Tail(results)
    /\ ctl_pc' = IF Tail(results) = <<>> THEN "done" ELSE "execute"
    /\ UNCHANGED <<auto_send, cacheVars, clientVars, monitorVars, chatVars, filterVars,
                   pollVars, threadVars>>

\* main.py: the controller is constructed (AUTO_SEND set to true or not) over absent
\* cache files
InitController ==
    /\ InitHandlers
    /\ polling_interval = 30
    /\ threads = <<>>
    /\ auto_send \in BOOLEAN
    /\ decision = "none"
    /\ probe = NoProbe
    /\ inbox \in {{SaleMail, MeetingMail}, {SaleMail, UrgentMail}}
    /\ gmail_client = TRUE
    /\ calendar_client \in BOOLEAN

NextController ==
    \/ CtlFetchNone
    \/ CtlProcess
    \/ CtlSummary
    \/ CtlExecute

SpecController == InitController /\ [][NextController]_vars

\* C23: a run with auto-send off sends no reply, adds no label and creates no event;
\* replies, labels and events come only from the execute-actions step, which runs only
\* with auto-send on, and that step sends a reply only for a result with should_respond
\* true and a generated response
C23_NoActionsWithoutAutoSend ==
    /\ [](~auto_send => sent = {} /\ events = {} /\ labels = {} /\ ctl_pc # "execute")
    /\ [][/\ (sent' # sent \/ events' # events \/ labels' # labels)
               => ctl_pc = "execute" /\ auto_send
          /\ ctl_pc = "execute" /\ sent' # {}
               => /\ Head(results).should_respond
                  /\ "generated_response" \in DOMAIN Head(results)
                  /\ sent' = {Head(results).id}]_vars

\* a run with auto-send off ended: the meeting mail was processed, would get a reply
\* and an event, and was notified
C23_Witness ==
    /\ ~auto_send /\ ctl_pc = "done"
    /\ results # <<>> /\ results[1].id = M2
    /\ results[1].should_respond /\ results[1].is_meeting_request
    /\ Get(results[1], "suggested_times", 0) > 0
    /\ M2 \in DOMAIN email_cache["monitor"]

=============================================================================
